---- MODULE Spec2Model ----
(***************************************************************************)
(* Verification model of Exif-Viewer-Pro: the multi-source consolidation   *)
(* engine (components/multi-exif-reader.tsx), the worker's byte forensics  *)
(* (workers/exif-worker.ts) and the hex pattern scanner                    *)
(* (components/hex-analyzer.tsx).                                          *)
(***************************************************************************)
EXTENDS Integers, Sequences, FiniteSets, TLC

VARIABLES
    pc,               \* position of the running handler
    sources,          \* analyzeWithMultipleLibraries: the local `sources` object (insertion ordered)
    exifSources,      \* React state exifSources
    consolidatedData, \* React state consolidatedData
    isAnalyzing,      \* React state isAnalyzing
    runs,             \* number of completed analyzeWithMultipleLibraries calls
    data,             \* the file's bytes
    hexResult,        \* payload of the worker's HEX_RESULT message
    hexData,          \* analyzedFile.hexData produced by generateHexData
    analyzer,         \* the memoised analyses of the rendered HexAnalyzer
    hexRows,          \* rows returned by the hex-utils generateHexDump
    worker,           \* the EXIF worker: the message being handled and the messages posted
    ela,              \* the ELA component: canvas size, threshold and result
    exifCache,        \* lib/cache.ts: the ExifCache singleton, the clock and the calls made
    forensics,        \* ForensicTools and AdvancedForensics: analyses and the loads they wait for
    hook,             \* useExifWorker: isProcessing and the calls in flight
    batch,            \* BatchProcessor: files, results and showResults
    editor            \* ExifEditor: editableFields and showEditor

\* the cache and the panels that use the worker hook
panels == <<exifCache, forensics, hook, batch, editor>>

\* the state of the components other than the multi-source reader and the hex page
others == <<analyzer, hexRows, worker, ela, panels>>

vars == <<pc, sources, exifSources, consolidatedData, isAnalyzing, runs,
          data, hexResult, hexData, others>>

(***************************************************************************)
(* Bounds                                                                  *)
(***************************************************************************)
NumValues == 5
MaxRuns == 2
MaxChunks == 3

None == "none"

\* no message posted by the worker yet
NoResponse == [type |-> None]

\* analyzedFile.hexData not set yet
NoHexData == <<>>

\* the HexAnalyzer is not mounted
NotMounted == <<>>

InitAnalyzer == analyzer = NotMounted

\* the worker has received no message
IdleWorker == [inbox |-> <<>>, handlers |-> <<>>, outbox |-> <<>>]

InitWorker == worker = IdleWorker

\* the ELA component before any image is given to it
NoELA == [phase |-> "unused"]

InitELA == ela = NoELA

\* new Map() in a cache nothing has called yet
NoCache == [cache |-> <<>>]

InitCache == exifCache = NoCache

\* useState({}) for analyses, and no tool started
NoForensics == [analyses |-> <<>>]

InitForensics == forensics = NoForensics

\* useExifWorker before any component calls it
NoHook == [isProcessing |-> FALSE]

InitHook == hook = NoHook

\* no BatchProcessor mounted
NoBatch == [files |-> <<>>]

InitBatch == batch = NoBatch

\* no ExifEditor mounted
NoEditor == [showEditor |-> FALSE]

InitEditor == editor = NoEditor

InitPanels ==
    /\ InitCache
    /\ InitForensics
    /\ InitHook
    /\ InitBatch
    /\ InitEditor

InitOthers ==
    /\ InitAnalyzer
    /\ hexRows = NoHexData
    /\ InitWorker
    /\ InitELA
    /\ InitPanels

Min(a, b) == IF a < b THEN a ELSE b

(***************************************************************************)
(* Metadata values.  A value is a tag; JSON.stringify maps the tags NaN    *)
(* and null to the same text, every string to its quoted text.             *)
(***************************************************************************)
Undefined == "undefined"

ValueList == <<"Canon", "null", "NaN", "Nikon", "Sony", "Fuji", "Leica">>

Values == {ValueList[i] : i \in 1..Min(NumValues, Len(ValueList))}

Fields == {"Make", "Model"}

EmptyData == [f \in {} |-> Undefined]

\* JSON.stringify(value)
JSONstringify(v) ==
    IF v = "NaN" \/ v = "null" THEN "null" ELSE "\"" \o v \o "\""

\* source.data[field]: a missing key reads as undefined
Get(d, field) == IF field \in DOMAIN d THEN d[field] ELSE Undefined

\* Math.round(num / den) for num >= 0, den > 0: halves round up
MathRound(num, den) == (2 * num + den) \div (2 * den)

(***************************************************************************)
(* components/multi-exif-reader.tsx                                        *)
(***************************************************************************)
SourceOrder == <<"exifr", "manual", "binary", "xmp">>

SourceName(key) ==
    CASE key = "exifr"  -> "ExifR"
      [] key = "manual" -> "Manual Parser"
      [] key = "binary" -> "Binary Analysis"
      [] key = "xmp"    -> "XMP Parser"

SourceLibrary(key) == IF key = "exifr" THEN "exifr" ELSE "custom"

FallbackMessage(key) ==
    CASE key = "exifr"  -> "Unknown error"
      [] key = "manual" -> "Manual parsing failed"
      [] key = "binary" -> "Binary analysis failed"
      [] key = "xmp"    -> "XMP extraction failed"

\* calculateCoverage, in units of half a percent: min(found / 200 * 100, 100)
calculateCoverage(d) == Min(Cardinality(DOMAIN d), 200)

LoadingSource(key) ==
    [key |-> key, name |-> SourceName(key), library |-> SourceLibrary(key),
     data |-> EmptyData, status |-> "loading", coverage |-> 0, unique_fields |-> 0]

SuccessSource(src, d) ==
    [src EXCEPT !.data = d, !.status = "success",
                !.coverage = calculateCoverage(d),
                !.unique_fields = Cardinality(DOMAIN d)]

\* error instanceof Error ? error.message : fallback
ErrorSource(src, thrown) ==
    [status |-> "error",
     error |-> IF thrown.isError THEN thrown.message ELSE FallbackMessage(src.key)]
    @@ src

\* sources[key] = entry on an insertion-ordered object
PutSource(srcs, entry) ==
    IF \E i \in DOMAIN srcs : srcs[i].key = entry.key
    THEN [i \in DOMAIN srcs |-> IF srcs[i].key = entry.key THEN entry ELSE srcs[i]]
    ELSE Append(srcs, entry)

SourceAt(srcs, key) == srcs[CHOOSE i \in DOMAIN srcs : srcs[i].key = key]

\* the field-name union of consolidateExifData
collectAllFields(srcs) ==
    UNION {DOMAIN srcs[i].data : i \in {j \in DOMAIN srcs : srcs[j].status = "success"}}

collectFieldData_noStatus(srcs, field) ==
    LET sel == SelectSeq(srcs, LAMBDA s : Get(s.data, field) # Undefined)
    IN  [i \in 1..Len(sel) |-> [source |-> sel[i].key, value |-> sel[i].data[field]]]

\* the {source, value} pairs of one field, in the object's iteration order
collectFieldData(srcs, field) ==
    LET sel == SelectSeq(srcs, LAMBDA s : s.status = "success" /\ Get(s.data, field) # Undefined)
    IN  [i \in 1..Len(sel) |-> [source |-> sel[i].key, value |-> sel[i].data[field]]]

calculateFieldConfidence_truncating(fieldData) ==
    LET uniqueValues == {JSONstringify(fieldData[i].value) : i \in DOMAIN fieldData}
    IN  ((Len(fieldData) - Cardinality(uniqueValues) + 1) * 100) \div Len(fieldData)

calculateFieldConfidence(fieldData) ==
    LET uniqueValues == {JSONstringify(fieldData[i].value) : i \in DOMAIN fieldData}
    IN  MathRound((Len(fieldData) - Cardinality(uniqueValues) + 1) * 100, Len(fieldData))

primaryValue_last(fieldData) == fieldData[Len(fieldData)].value

primaryValue(fieldData) == fieldData[1].value

findConflicts_strictEquality(fieldData) ==
    SelectSeq(Tail(fieldData), LAMBDA item : item.value # primaryValue(fieldData))

findConflicts(fieldData) ==
    SelectSeq(Tail(fieldData),
              LAMBDA item : JSONstringify(item.value) # JSONstringify(primaryValue(fieldData)))

consolidateField(fieldData) ==
    LET conflicts == findConflicts(fieldData)
        base == [value |-> primaryValue(fieldData),
                 sources |-> [i \in DOMAIN fieldData |-> fieldData[i].source],
                 confidence |-> calculateFieldConfidence(fieldData)]
    IN  IF Len(conflicts) > 0 THEN base @@ [conflicts |-> conflicts] ELSE base

consolidateExifData(srcs) ==
    LET kept == {f \in collectAllFields(srcs) : Len(collectFieldData(srcs, f)) > 0}
    IN  [f \in kept |-> consolidateField(collectFieldData(srcs, f))]

\* consolidateExifData applied to arbitrary extraction results -----------------
SuccessData ==
    {d \in UNION {[D -> Values \cup {Undefined, "Z9"}] : D \in SUBSET Fields} :
        /\ "Model" \in DOMAIN d => d["Model"] = "Z9"
        /\ "Make" \in DOMAIN d => d["Make"] # "Z9"}

ErrorData == {EmptyData, [f \in Fields |-> IF f = "Make" THEN "Hasselblad" ELSE "X2D"]}

SourceInputs(key) ==
    {SuccessSource(LoadingSource(key), d) : d \in SuccessData}
    \cup {[ErrorSource(LoadingSource(key), [isError |-> FALSE]) EXCEPT !.data = d] : d \in ErrorData}

InputSources ==
    {srcs \in [1..Len(SourceOrder) -> UNION {SourceInputs(SourceOrder[i]) : i \in 1..Len(SourceOrder)}] :
        \A i \in 1..Len(SourceOrder) : srcs[i].key = SourceOrder[i]}

InitCommon ==
    /\ sources = <<>>
    /\ exifSources = <<>>
    /\ consolidatedData = [f \in {} |-> None]
    /\ isAnalyzing = FALSE
    /\ runs = 0
    /\ data = <<>>
    /\ hexResult = NoResponse
    /\ hexData = NoHexData
    /\ InitOthers

InitConsolidate ==
    /\ pc = "input"
    /\ sources \in InputSources
    /\ exifSources = <<>>
    /\ consolidatedData = [f \in {} |-> None]
    /\ isAnalyzing = FALSE
    /\ runs = 0
    /\ data = <<>>
    /\ hexResult = NoResponse
    /\ hexData = NoHexData
    /\ InitOthers

Consolidate ==
    /\ pc = "input"
    /\ consolidatedData' = consolidateExifData(sources)
    /\ pc' = "consolidated"
    /\ UNCHANGED <<sources, exifSources, isAnalyzing, runs, data, hexResult, hexData, others>>

NextConsolidate == Consolidate

SpecConsolidate == InitConsolidate /\ [][NextConsolidate]_vars

\* analyzeWithMultipleLibraries -----------------------------------------------
\* what a strategy's promise resolves to: exifr.parse may resolve to undefined
Resolved(d) == [nullish |-> FALSE, fields |-> d]

NoMetadata == [nullish |-> TRUE, fields |-> EmptyData]

StrategyOutputs(key) ==
    CASE key = "exifr"  -> {NoMetadata, Resolved([f \in Fields |-> IF f = "Make" THEN "Canon" ELSE "Z9"])}
      [] key = "manual" -> {Resolved([f \in {"Make"} |-> "Canon"]), Resolved([f \in {"Make"} |-> "Nikon"])}
      [] key = "binary" -> {Resolved(EmptyData), Resolved([f \in {"Make"} |-> "null"])}
      [] key = "xmp"    -> {Resolved([f \in {"Make"} |-> "NaN"]), Resolved([f \in {"Model"} |-> "Z9"])}

Thrown == {[isError |-> TRUE, message |-> "parse failed"], [isError |-> FALSE]}

AwaitOf(key) == "await_" \o key

IndexOf(key) == CHOOSE i \in 1..Len(SourceOrder) : SourceOrder[i] = key

\* what runs, without suspending, after the await of strategy `key` has settled
Continue(key, after) ==
    IF IndexOf(key) < Len(SourceOrder)
    THEN LET next == SourceOrder[IndexOf(key) + 1]
         IN  /\ sources' = PutSource(after, LoadingSource(next))
             /\ exifSources' = sources'
             /\ pc' = AwaitOf(next)
             /\ UNCHANGED <<consolidatedData, isAnalyzing, runs>>
    ELSE /\ sources' = after
         /\ exifSources' = after
         /\ consolidatedData' = consolidateExifData(after)
         /\ isAnalyzing' = FALSE
         /\ runs' = runs + 1
         /\ pc' = "idle"

analyzeStart ==
    /\ pc = "idle"
    /\ ~isAnalyzing
    /\ runs < MaxRuns
    /\ isAnalyzing' = TRUE
    /\ sources' = <<LoadingSource(SourceOrder[1])>>
    /\ exifSources' = sources'
    /\ pc' = AwaitOf(SourceOrder[1])
    /\ UNCHANGED <<consolidatedData, runs, data, hexResult, hexData, others>>

Resolve(key) ==
    /\ pc = AwaitOf(key)
    /\ \E out \in StrategyOutputs(key) :
          LET d == IF out.nullish THEN EmptyData ELSE out.fields
          IN  Continue(key, PutSource(sources, SuccessSource(SourceAt(sources, key), d)))
    /\ UNCHANGED <<data, hexResult, hexData, others>>

Reject_aborts(key) ==
    /\ pc = AwaitOf(key)
    /\ \E thrown \in Thrown :
          /\ sources' = PutSource(sources, ErrorSource(SourceAt(sources, key), thrown))
          /\ exifSources' = sources'
          /\ consolidatedData' = consolidateExifData(sources')
          /\ isAnalyzing' = FALSE
          /\ runs' = runs + 1
          /\ pc' = "idle"
    /\ UNCHANGED <<data, hexResult, hexData, others>>

Reject(key) ==
    /\ pc = AwaitOf(key)
    /\ \E thrown \in Thrown :
          Continue(key, PutSource(sources, ErrorSource(SourceAt(sources, key), thrown)))
    /\ UNCHANGED <<data, hexResult, hexData, others>>

Keys == {SourceOrder[i] : i \in 1..Len(SourceOrder)}

InitAnalyze == pc = "idle" /\ InitCommon

NextAnalyze ==
    \/ analyzeStart
    \/ \E key \in Keys : Resolve(key)
    \/ \E key \in Keys : Reject(key)

SpecAnalyze == InitAnalyze /\ [][NextAnalyze]_vars

(***************************************************************************)
(* Properties of the consolidation engine                                  *)
(***************************************************************************)
Consolidated == pc = "consolidated"

\* the successful sources that report `field` with a defined value
Reporters(field) ==
    {i \in DOMAIN sources :
        /\ sources[i].status = "success"
        /\ field \in DOMAIN sources[i].data
        /\ sources[i].data[field] # Undefined}

First(R) == CHOOSE i \in R : \A j \in R : i <= j

Nth(R, n) == CHOOSE i \in R : Cardinality({j \in R : j <= i}) = n

Serializations(field) == {JSONstringify(sources[i].data[field]) : i \in Reporters(field)}

\* C1: every consolidated field carries the value of the first successful
\* source, in the order exifr, manual, binary, xmp, that reports it, and its
\* sources list is exactly the successful reporters in that order.
C1_FirstSourceWins ==
    Consolidated =>
        \A f \in DOMAIN consolidatedData :
            LET R == Reporters(f)
                entry == consolidatedData[f]
            IN  /\ R # {}
                /\ \A i \in DOMAIN sources : sources[i].key = SourceOrder[i]
                /\ entry.value = sources[First(R)].data[f]
                /\ Len(entry.sources) = Cardinality(R)
                /\ \A n \in 1..Len(entry.sources) : entry.sources[n] = SourceOrder[Nth(R, n)]

C1_Witness ==
    /\ Consolidated
    /\ "Make" \in DOMAIN consolidatedData
    /\ sources[1].status = "error"
    /\ Get(sources[2].data, "Make") = Undefined
    /\ consolidatedData["Make"].sources = <<"binary", "xmp">>
    /\ sources[3].data["Make"] # sources[4].data["Make"]

\* C2: the conflicts list of a field is absent exactly when all successful
\* reporters serialize to the same text; when present it is exactly the later
\* reporters whose serialization differs from the chosen value's, each with
\* its own value, in source order.
C2_ConflictsIffDisagreement ==
    Consolidated =>
        \A f \in DOMAIN consolidatedData :
            LET R == Reporters(f)
                entry == consolidatedData[f]
                later == {i \in R : /\ i # First(R)
                                    /\ JSONstringify(sources[i].data[f]) # JSONstringify(entry.value)}
            IN  /\ ("conflicts" \notin DOMAIN entry) <=> (Cardinality(Serializations(f)) = 1)
                /\ "conflicts" \in DOMAIN entry =>
                      /\ Len(entry.conflicts) = Cardinality(later)
                      /\ Len(entry.conflicts) > 0
                      /\ \A n \in 1..Len(entry.conflicts) :
                            entry.conflicts[n] = [source |-> sources[Nth(later, n)].key,
                                                  value |-> sources[Nth(later, n)].data[f]]

C2_Witness ==
    /\ Consolidated
    /\ "Make" \in DOMAIN consolidatedData
    /\ Cardinality(Reporters("Make")) = 3
    /\ consolidatedData["Make"].value = "null"
    /\ \E i \in Reporters("Make") : sources[i].data["Make"] = "NaN"
    /\ "conflicts" \in DOMAIN consolidatedData["Make"]
    /\ Len(consolidatedData["Make"].conflicts) = 1

\* C3: with k contributing sources and u distinct serializations the
\* confidence is 100 * (k - u + 1) / k rounded to the nearest integer (halves
\* up): 100 when all agree, 50 when two sources disagree, always in 0..100.
C3_ConfidenceFormula ==
    Consolidated =>
        \A f \in DOMAIN consolidatedData :
            LET k == Cardinality(Reporters(f))
                u == Cardinality(Serializations(f))
                c == consolidatedData[f].confidence
            IN  /\ c \in 0..100
                /\ 2 * k * c <= 200 * (k - u + 1) + k
                /\ 200 * (k - u + 1) + k < 2 * k * (c + 1)
                /\ u = 1 => c = 100
                /\ (k = 2 /\ u = 2) => c = 50

C3_Witness ==
    /\ Consolidated
    /\ "Make" \in DOMAIN consolidatedData
    /\ Cardinality(Reporters("Make")) = 3
    /\ Cardinality(Serializations("Make")) = 2
    /\ consolidatedData["Make"].confidence = 67

\* C4: a source with status error contributes nothing: every consolidated
\* field, value, listed source and conflict comes from a successful source,
\* and with no successful source the consolidated map is empty.
C4_FailedSourcesExcluded ==
    Consolidated =>
        LET ok == {i \in DOMAIN sources : sources[i].status = "success"}
            okKeys == {sources[i].key : i \in ok}
            reported(f) == {[source |-> sources[i].key, value |-> sources[i].data[f]] :
                              i \in {j \in ok : f \in DOMAIN sources[j].data}}
        IN  /\ ok = {} => DOMAIN consolidatedData = {}
            /\ \A f \in DOMAIN consolidatedData :
                  LET entry == consolidatedData[f]
                  IN  /\ \E i \in ok : f \in DOMAIN sources[i].data
                      /\ \E r \in reported(f) : r.value = entry.value
                      /\ \A n \in DOMAIN entry.sources : entry.sources[n] \in okKeys
                      /\ "conflicts" \in DOMAIN entry =>
                            \A n \in DOMAIN entry.conflicts : entry.conflicts[n] \in reported(f)
            /\ \A f \in Fields :
                  (\E i \in ok : Get(sources[i].data, f) # Undefined) => f \in DOMAIN consolidatedData

C4_Witness ==
    /\ Consolidated
    /\ sources[1].status = "error"
    /\ DOMAIN sources[1].data = Fields
    /\ sources[3].status = "error"
    /\ DOMAIN consolidatedData = Fields
    /\ consolidatedData["Make"].sources = <<"manual", "xmp">>

(***************************************************************************)
(* Properties of analyzeWithMultipleLibraries                              *)
(***************************************************************************)
Settled(srcs) ==
    /\ Len(srcs) = Len(SourceOrder)
    /\ \A i \in DOMAIN srcs :
          /\ srcs[i].key = SourceOrder[i]
          /\ srcs[i].status \in {"success", "error"}

\* C5: consolidation is stored only once all four strategies are success or
\* error, a throwing strategy is recorded as error with a reason and the next
\* strategy still starts, and isAnalyzing is false once consolidation is stored.
C5_JoinThenConsolidate ==
    /\ [][(runs' # runs \/ consolidatedData' # consolidatedData) =>
            /\ Settled(sources')
            /\ exifSources' = sources'
            /\ ~isAnalyzing']_vars
    /\ [][\A i \in 1..(Len(SourceOrder) - 1) :
            (pc = AwaitOf(SourceOrder[i]) /\ pc' # pc) =>
                /\ pc' = AwaitOf(SourceOrder[i + 1])
                /\ Len(sources') = i + 1
                /\ sources'[i].status \in {"success", "error"}
                /\ sources'[i + 1].status = "loading"]_vars
    /\ [](\A i \in DOMAIN exifSources :
            exifSources[i].status = "error" <=> "error" \in DOMAIN exifSources[i])
    /\ [](pc = "idle" => ~isAnalyzing)
    /\ [](runs > 0 /\ pc = "idle" => Settled(exifSources))

C5_Witness ==
    /\ pc = "idle"
    /\ runs > 0
    /\ ~isAnalyzing
    /\ exifSources[1].status = "error"
    /\ exifSources[2].status = "error"
    /\ exifSources[3].status = "success"
    /\ exifSources[4].status = "success"
    /\ DOMAIN consolidatedData # {}

(***************************************************************************)
(* Bytes and text.  A byte is a number in 0..255; a string is a sequence   *)
(* of one-character strings, so letter case and half-byte positions are    *)
(* visible.  String indices are those of JavaScript (from 0).              *)
(***************************************************************************)
HexDigitsLower == <<"0", "1", "2", "3", "4", "5", "6", "7", "8", "9", "a", "b", "c", "d", "e", "f">>

HexDigitsUpper == <<"0", "1", "2", "3", "4", "5", "6", "7", "8", "9", "A", "B", "C", "D", "E", "F">>

\* the characters 0x20..0x7E; U+0060 stands for the grave accent
PrintableAscii ==
    <<
       " ", "!", "\"", "#", "$", "%", "&", "'", "(", ")", "*", "+", ",", "-", ".", "/",
       "0", "1", "2", "3", "4", "5", "6", "7", "8", "9", ":", ";", "<", "=", ">", "?",
       "@", "A", "B", "C", "D", "E", "F", "G", "H", "I", "J", "K", "L", "M", "N", "O",
       "P", "Q", "R", "S", "T", "U", "V", "W", "X", "Y", "Z", "[", "\\", "]", "^", "_",
       "U+0060", "a", "b", "c", "d", "e", "f", "g", "h", "i", "j", "k", "l", "m", "n", "o",
       "p", "q", "r", "s", "t", "u", "v", "w", "x", "y", "z", "{", "|", "}", "~" >>

\* c.toUpperCase() on one character of a hexadecimal text
CharToUpper(c) ==
    IF \E k \in 1..16 : HexDigitsLower[k] = c
    THEN HexDigitsUpper[CHOOSE k \in 1..16 : HexDigitsLower[k] = c]
    ELSE c

toUpperCase(str) == [i \in DOMAIN str |-> CharToUpper(str[i])]

ByteToHex_unpadded(b) ==
    IF b < 16 THEN <<HexDigitsLower[b + 1]>>
    ELSE <<HexDigitsLower[(b \div 16) + 1], HexDigitsLower[(b % 16) + 1]>>

\* b.toString(16).padStart(2, '0')
ByteToHex(b) == <<HexDigitsLower[(b \div 16) + 1], HexDigitsLower[(b % 16) + 1]>>

RECURSIVE NumToHex(_)
\* n.toString(16)
NumToHex(n) ==
    IF n < 16 THEN <<HexDigitsLower[n + 1]>>
    ELSE Append(NumToHex(n \div 16), HexDigitsLower[(n % 16) + 1])

RECURSIVE padStart(_, _, _)
padStart(str, width, c) == IF Len(str) >= width THEN str ELSE padStart(<<c>> \o str, width, c)

RECURSIVE padEnd(_, _, _)
padEnd(str, width, c) == IF Len(str) >= width THEN str ELSE padEnd(Append(str, c), width, c)

RECURSIVE Concat(_)
\* parts.join('')
Concat(parts) ==
    IF Len(parts) = 0 THEN <<>>
    ELSE IF Len(parts) = 1 THEN parts[1]
    ELSE LET mid == Len(parts) \div 2
         IN  Concat(SubSeq(parts, 1, mid)) \o Concat(SubSeq(parts, mid + 1, Len(parts)))

RECURSIVE JoinWith(_, _)
\* parts.join(sep)
JoinWith(parts, sep) ==
    IF Len(parts) = 0 THEN <<>>
    ELSE IF Len(parts) = 1 THEN parts[1]
    ELSE parts[1] \o sep \o JoinWith(Tail(parts), sep)

\* array.slice(from, to) with 0 <= from
Slice(arr, from, to) == SubSeq(arr, from + 1, Min(to, Len(arr)))

\* does `sub` occur in `str` at index i
OccursAt(str, sub, i) ==
    /\ i >= 0
    /\ i + Len(sub) <= Len(str)
    /\ \A k \in 1..Len(sub) : str[i + k] = sub[k]

\* str.indexOf(sub, from)
indexOf(str, sub, from) ==
    LET hits == {i \in from..(Len(str) - Len(sub)) : OccursAt(str, sub, i)}
    IN  IF hits = {} THEN -1 ELSE CHOOSE i \in hits : \A j \in hits : i <= j

startsWith(str, prefix) == OccursAt(str, prefix, 0)

\* str.replace(/\s/g, '')
StripSpaces(str) == SelectSeq(str, LAMBDA c : c # " ")

\* the JavaScript number index / 2
HalfOf(index) == [whole |-> index \div 2, halves |-> index % 2]

(***************************************************************************)
(* workers/exif-worker.ts: signature detection and embedded-object scan    *)
(***************************************************************************)
SIG_JFIF == <<"f", "f", "d", "8", "f", "f", "e", "0">>

SIG_EXIF == <<"f", "f", "d", "8", "f", "f", "e", "1">>

SIG_PNG == <<"8", "9", "5", "0", "4", "e", "4", "7">>

SIG_GIF == <<"4", "7", "4", "9", "4", "6", "3", "8">>

SIG_ZIP == <<"5", "0", "4", "b", "0", "3", "0", "4">>

SIG_ZIP_END == <<"5", "0", "4", "b", "0", "5", "0", "6">>

SIG_PDF == <<"2", "5", "5", "0", "4", "4", "4", "6">>

SIG_MZ == <<"4", "d", "5", "a">>

SIG_ZM == <<"5", "a", "4", "d">>

SIG_OLE == <<"d", "0", "c", "f", "1", "1", "e", "0">>

HeaderBytes == 16

ScanLimit == 10000

\* Array.from(bytes).map(b => b.toString(16).padStart(2, '0')).join('')
BytesToHex(bytes) == Concat([i \in DOMAIN bytes |-> ByteToHex(bytes[i])])

analyzeFileSignature_includes(bytes) ==
    LET signature == BytesToHex(Slice(bytes, 0, HeaderBytes))
    IN  IF indexOf(signature, SIG_JFIF, 0) # -1 THEN [type |-> "JPEG (JFIF)", confidence |-> 100]
        ELSE IF indexOf(signature, SIG_EXIF, 0) # -1 THEN [type |-> "JPEG (EXIF)", confidence |-> 100]
        ELSE IF indexOf(signature, SIG_PNG, 0) # -1 THEN [type |-> "PNG", confidence |-> 100]
        ELSE IF indexOf(signature, SIG_GIF, 0) # -1 THEN [type |-> "GIF", confidence |-> 100]
        ELSE [type |-> "Unknown", confidence |-> 0]

analyzeFileSignature(bytes) ==
    LET signature == BytesToHex(Slice(bytes, 0, HeaderBytes))
    IN  IF startsWith(signature, SIG_JFIF) THEN [type |-> "JPEG (JFIF)", confidence |-> 100]
        ELSE IF startsWith(signature, SIG_EXIF) THEN [type |-> "JPEG (EXIF)", confidence |-> 100]
        ELSE IF startsWith(signature, SIG_PNG) THEN [type |-> "PNG", confidence |-> 100]
        ELSE IF startsWith(signature, SIG_GIF) THEN [type |-> "GIF", confidence |-> 100]
        ELSE [type |-> "Unknown", confidence |-> 0]

EmbeddedSignatures ==
    << [sig |-> SIG_JFIF, type |-> "JPEG"],
       [sig |-> SIG_PNG,  type |-> "PNG"],
       [sig |-> SIG_ZIP,  type |-> "ZIP"],
       [sig |-> SIG_PDF,  type |-> "PDF"] >>

\* the loop condition of detectEmbeddedFiles
KeepScanning_noHeaderSkip(index) == index # -1

KeepScanning(index) == index # -1 /\ index > 0

RECURSIVE ScanSignature(_, _, _, _)
\* the while loop of detectEmbeddedFiles for one signature, entered with `index`
ScanSignature(hexString, sigData, index, embedded) ==
    IF KeepScanning(index)
    THEN ScanSignature(hexString, sigData, indexOf(hexString, sigData.sig, index + 1),
                       Append(embedded, [type |-> sigData.type, offset |-> HalfOf(index)]))
    ELSE embedded

RECURSIVE ScanAllSignatures(_, _, _)
ScanAllSignatures(hexString, n, embedded) ==
    IF n > Len(EmbeddedSignatures) THEN embedded
    ELSE ScanAllSignatures(hexString, n + 1,
            ScanSignature(hexString, EmbeddedSignatures[n],
                          indexOf(hexString, EmbeddedSignatures[n].sig, 0), embedded))

detectEmbeddedFiles(bytes) ==
    ScanAllSignatures(BytesToHex(Slice(bytes, 0, Min(Len(bytes), ScanLimit))), 1, <<>>)

(***************************************************************************)
(* Hex renderers                                                           *)
(***************************************************************************)
RowBytes == 16

HexFieldWidth == 47

OffsetWidth == 8

WorkerDumpCap == 2048

PageDumpCap == 4096

\* i.toString(16).padStart(8, '0').toUpperCase()
OffsetText(i) == toUpperCase(padStart(NumToHex(i), OffsetWidth, "0"))

\* b => (b >= 32 && b <= 126) ? String.fromCharCode(b) : '.'
AsciiChar(b) == IF b >= 32 /\ b <= 126 THEN PrintableAscii[b - 31] ELSE "."

AsciiText(chunk) == [k \in DOMAIN chunk |-> AsciiChar(chunk[k])]

RowCount_wholeRows(n) == n \div RowBytes

\* the number of passes of `for (let i = 0; i < n; i += 16)`
RowCount(n) == (n + RowBytes - 1) \div RowBytes

\* generateHexDump of the worker: lower-case octets
generateHexDump(bytes) ==
    [r \in 1..RowCount(Len(bytes)) |->
        LET i == (r - 1) * RowBytes
            chunk == Slice(bytes, i, i + RowBytes)
        IN  [offset |-> OffsetText(i),
             hex |-> padEnd(JoinWith([k \in DOMAIN chunk |-> ByteToHex(chunk[k])], <<" ">>),
                            HexFieldWidth, " "),
             ascii |-> AsciiText(chunk)]]

\* b.toString(16).padStart(2, '0').toUpperCase() of generateHexData
PageOctet(b) == toUpperCase(ByteToHex(b))

\* generateHexData of the page: upper-case octets, at most 4096 bytes
generateHexData(bytes) ==
    [lines |-> [r \in 1..RowCount(Min(Len(bytes), PageDumpCap)) |->
                  LET i == (r - 1) * RowBytes
                      chunk == Slice(bytes, i, i + RowBytes)
                  IN  [offset |-> OffsetText(i),
                       hex |-> padEnd(JoinWith([k \in DOMAIN chunk |-> PageOctet(chunk[k])], <<" ">>),
                                      HexFieldWidth, " "),
                       ascii |-> AsciiText(chunk)]],
     raw |-> bytes,
     totalBytes |-> Len(bytes),
     displayedBytes |-> Min(Len(bytes), PageDumpCap)]

\* generateHexDump of hex-utils: upper-case octets, no padding of the hex field
hexUtils_generateHexDump(bytes) ==
    [r \in 1..RowCount(Len(bytes)) |->
        LET i == (r - 1) * RowBytes
            chunk == Slice(bytes, i, i + RowBytes)
        IN  [offset |-> OffsetText(i),
             hex |-> JoinWith([k \in DOMAIN chunk |-> toUpperCase(ByteToHex(chunk[k]))], <<" ">>),
             ascii |-> AsciiText(chunk)]]

(***************************************************************************)
(* components/hex-analyzer.tsx: suspiciousPatterns                         *)
(***************************************************************************)
NullRunMin == 20

FFRunMin == 10

\* A check's regular expression is an ordered alternation of literals,
\* optionally followed by one character repeated at least `min` times:
\* /00{20,}/ is the literal 0 followed by 0{20,}.
suspiciousChecks ==
    << [source |-> "00{20,}", alts |-> << <<"0">> >>, rep |-> "0", min |-> NullRunMin,
        description |-> "Long sequence of null bytes (possible padding or hidden data)",
        severity |-> "medium"],
       [source |-> "ff{10,}", alts |-> << <<"f">> >>, rep |-> "f", min |-> FFRunMin,
        description |-> "Long sequence of 0xFF bytes (possible corruption or manipulation)",
        severity |-> "medium"],
       [source |-> "(504b0304|504b0506)", alts |-> <<SIG_ZIP, SIG_ZIP_END>>, rep |-> None, min |-> 0,
        description |-> "ZIP file signature found (possible embedded archive)",
        severity |-> "high"],
       [source |-> "25504446", alts |-> <<SIG_PDF>>, rep |-> None, min |-> 0,
        description |-> "PDF signature found (possible embedded document)",
        severity |-> "high"],
       [source |-> "(4d5a|5a4d)", alts |-> <<SIG_MZ, SIG_ZM>>, rep |-> None, min |-> 0,
        description |-> "Executable file signature (possible malware)",
        severity |-> "critical"],
       [source |-> "d0cf11e0", alts |-> <<SIG_OLE>>, rep |-> None, min |-> 0,
        description |-> "Microsoft Office document signature",
        severity |-> "medium"] >>

\* how many times the character c repeats in str from index i on
RepCount(str, c, i) ==
    CHOOSE k \in 0..(Len(str) - i) :
        /\ i + k = Len(str) \/ str[i + k + 1] # c
        /\ \A j \in 0..(k - 1) : str[i + j + 1] = c

\* length of the match of `check` at index i, or -1
MatchLength(str, check, i) ==
    LET fits == {a \in DOMAIN check.alts : OccursAt(str, check.alts[a], i)}
    IN  IF fits = {} THEN -1
        ELSE LET lit == check.alts[CHOOSE a \in fits : \A b \in fits : a <= b]
             IN  IF check.rep = None THEN Len(lit)
                 ELSE LET n == RepCount(str, check.rep, i + Len(lit))
                      IN  IF n >= check.min THEN Len(lit) + n ELSE -1

RECURSIVE MatchAllFrom(_, _, _, _)
\* Array.from(str.matchAll(regex)).map(m => m.index), searching from `pos`
MatchAllFrom(str, check, pos, found) ==
    LET starts == {i \in pos..(Len(str) - 1) : MatchLength(str, check, i) >= 0}
    IN  IF starts = {} THEN found
        ELSE LET i == CHOOSE j \in starts : \A k \in starts : j <= k
             IN  MatchAllFrom(str, check, i + MatchLength(str, check, i), Append(found, i))

\* hexData.lines.map(line => line.hex.replace(/\s/g, '')).join('')
FullHex(hd) == Concat([r \in DOMAIN hd.lines |-> StripSpaces(hd.lines[r].hex)])

suspiciousPatterns(hd) ==
    LET fullHex == FullHex(hd)
        all == [n \in DOMAIN suspiciousChecks |->
                  [pattern |-> suspiciousChecks[n].source,
                   description |-> suspiciousChecks[n].description,
                   severity |-> suspiciousChecks[n].severity,
                   locations |-> MatchAllFrom(fullHex, suspiciousChecks[n], 0, <<>>)]]
    IN  SelectSeq(all, LAMBDA p : Len(p.locations) > 0)

(***************************************************************************)
(* Shannon entropy.  Math.log2 is tabulated to four decimals (powers of    *)
(* two are exact); an entropy is the fraction num / den in units of        *)
(* 1/10000 bit.                                                            *)
(***************************************************************************)
Log2Scale == 10000

\* Log2Table[m] = Math.log2(m) * 10000, rounded, for m in 1..4097
Log2Table ==
    <<
       0, 10000, 15850, 20000, 23219, 25850, 28074, 30000, 31699, 33219, 34594, 35850, 37004, 38074, 39069, 40000, 40875, 41699, 42479, 43219, 43923, 44594, 45236, 45850,
       46439, 47004, 47549, 48074, 48580, 49069, 49542, 50000, 50444, 50875, 51293, 51699, 52095, 52479, 52854, 53219, 53576, 53923, 54263, 54594, 54919, 55236, 55546, 55850,
       56147, 56439, 56724, 57004, 57279, 57549, 57814, 58074, 58329, 58580, 58826, 59069, 59307, 59542, 59773, 60000, 60224, 60444, 60661, 60875, 61085, 61293, 61497, 61699,
       61898, 62095, 62288, 62479, 62668, 62854, 63038, 63219, 63399, 63576, 63750, 63923, 64094, 64263, 64429, 64594, 64757, 64919, 65078, 65236, 65392, 65546, 65699, 65850,
       65999, 66147, 66294, 66439, 66582, 66724, 66865, 67004, 67142, 67279, 67415, 67549, 67682, 67814, 67944, 68074, 68202, 68329, 68455, 68580, 68704, 68826, 68948, 69069,
       69189, 69307, 69425, 69542, 69658, 69773, 69887, 70000, 70112, 70224, 70334, 70444, 70553, 70661, 70768, 70875, 70980, 71085, 71189, 71293, 71396, 71497, 71599, 71699,
       71799, 71898, 71997, 72095, 72192, 72288, 72384, 72479, 72574, 72668, 72761, 72854, 72946, 73038, 73129, 73219, 73309, 73399, 73487, 73576, 73663, 73750, 73837, 73923,
       74009, 74094, 74179, 74263, 74346, 74429, 74512, 74594, 74676, 74757, 74838, 74919, 74998, 75078, 75157, 75236, 75314, 75392, 75469, 75546, 75622, 75699, 75774, 75850,
       75925, 75999, 76073, 76147, 76221, 76294, 76366, 76439, 76511, 76582, 76653, 76724, 76795, 76865, 76935, 77004, 77074, 77142, 77211, 77279, 77347, 77415, 77482, 77549,
       77616, 77682, 77748, 77814, 77879, 77944, 78009, 78074, 78138, 78202, 78265, 78329, 78392, 78455, 78517, 78580, 78642, 78704, 78765, 78826, 78887, 78948, 79009, 79069,
       79129, 79189, 79248, 79307, 79366, 79425, 79484, 79542, 79600, 79658, 79715, 79773, 79830, 79887, 79944, 80000, 80056, 80112, 80168, 80224, 80279, 80334, 80389, 80444,
       80498, 80553, 80607, 80661, 80715, 80768, 80821, 80875, 80928, 80980, 81033, 81085, 81137, 81189, 81241, 81293, 81344, 81396, 81447, 81497, 81548, 81599, 81649, 81699,
       81749, 81799, 81849, 81898, 81948, 81997, 82046, 82095, 82143, 82192, 82240, 82288, 82336, 82384, 82432, 82479, 82527, 82574, 82621, 82668, 82715, 82761, 82808, 82854,
       82900, 82946, 82992, 83038, 83083, 83129, 83174, 83219, 83264, 83309, 83354, 83399, 83443, 83487, 83531, 83576, 83619, 83663, 83707, 83750, 83794, 83837, 83880, 83923,
       83966, 84009, 84051, 84094, 84136, 84179, 84221, 84263, 84305, 84346, 84388, 84429, 84471, 84512, 84553, 84594, 84635, 84676, 84717, 84757, 84798, 84838, 84878, 84919,
       84959, 84998, 85038, 85078, 85118, 85157, 85196, 85236, 85275, 85314, 85353, 85392, 85430, 85469, 85507, 85546, 85584, 85622, 85661, 85699, 85736, 85774, 85812, 85850,
       85887, 85925, 85962, 85999, 86036, 86073, 86110, 86147, 86184, 86221, 86257, 86294, 86330, 86366, 86402, 86439, 86475, 86511, 86546, 86582, 86618, 86653, 86689, 86724,
       86760, 86795, 86830, 86865, 86900, 86935, 86970, 87004, 87039, 87074, 87108, 87142, 87177, 87211, 87245, 87279, 87313, 87347, 87381, 87415, 87448, 87482, 87515, 87549,
       87582, 87616, 87649, 87682, 87715, 87748, 87781, 87814, 87846, 87879, 87912, 87944, 87977, 88009, 88041, 88074, 88106, 88138, 88170, 88202, 88234, 88265, 88297, 88329,
       88361, 88392, 88424, 88455, 88486, 88517, 88549, 88580, 88611, 88642, 88673, 88704, 88734, 88765, 88796, 88826, 88857, 88887, 88918, 88948, 88978, 89009, 89039, 89069,
       89099, 89129, 89159, 89189, 89218, 89248, 89278, 89307, 89337, 89366, 89396, 89425, 89454, 89484, 89513, 89542, 89571, 89600, 89629, 89658, 89687, 89715, 89744, 89773,
       89801, 89830, 89858, 89887, 89915, 89944, 89972, 90000, 90028, 90056, 90084, 90112, 90140, 90168, 90196, 90224, 90251, 90279, 90307, 90334, 90362, 90389, 90417, 90444,
       90471, 90498, 90526, 90553, 90580, 90607, 90634, 90661, 90688, 90715, 90741, 90768, 90795, 90821, 90848, 90875, 90901, 90928, 90954, 90980, 91007, 91033, 91059, 91085,
       91111, 91137, 91163, 91189, 91215, 91241, 91267, 91293, 91319, 91344, 91370, 91396, 91421, 91447, 91472, 91497, 91523, 91548, 91573, 91599, 91624, 91649, 91674, 91699,
       91724, 91749, 91774, 91799, 91824, 91849, 91874, 91898, 91923, 91948, 91972, 91997, 92021, 92046, 92070, 92095, 92119, 92143, 92167, 92192, 92216, 92240, 92264, 92288,
       92312, 92336, 92360, 92384, 92408, 92432, 92456, 92479, 92503, 92527, 92550, 92574, 92597, 92621, 92644, 92668, 92691, 92715, 92738, 92761, 92784, 92808, 92831, 92854,
       92877, 92900, 92923, 92946, 92969, 92992, 93015, 93038, 93061, 93083, 93106, 93129, 93151, 93174, 93197, 93219, 93242, 93264, 93287, 93309, 93332, 93354, 93376, 93399,
       93421, 93443, 93465, 93487, 93509, 93531, 93554, 93576, 93597, 93619, 93641, 93663, 93685, 93707, 93729, 93750, 93772, 93794, 93815, 93837, 93859, 93880, 93902, 93923,
       93945, 93966, 93987, 94009, 94030, 94051, 94073, 94094, 94115, 94136, 94157, 94179, 94200, 94221, 94242, 94263, 94284, 94305, 94325, 94346, 94367, 94388, 94409, 94429,
       94450, 94471, 94491, 94512, 94533, 94553, 94574, 94594, 94615, 94635, 94656, 94676, 94696, 94717, 94737, 94757, 94778, 94798, 94818, 94838, 94858, 94878, 94898, 94919,
       94939, 94959, 94979, 94998, 95018, 95038, 95058, 95078, 95098, 95118, 95137, 95157, 95177, 95196, 95216, 95236, 95255, 95275, 95294, 95314, 95333, 95353, 95372, 95392,
       95411, 95430, 95450, 95469, 95488, 95507, 95527, 95546, 95565, 95584, 95603, 95622, 95641, 95661, 95680, 95699, 95718, 95736, 95755, 95774, 95793, 95812, 95831, 95850,
       95868, 95887, 95906, 95925, 95943, 95962, 95981, 95999, 96018, 96036, 96055, 96073, 96092, 96110, 96129, 96147, 96165, 96184, 96202, 96221, 96239, 96257, 96275, 96294,
       96312, 96330, 96348, 96366, 96384, 96402, 96421, 96439, 96457, 96475, 96493, 96511, 96528, 96546, 96564, 96582, 96600, 96618, 96636, 96653, 96671, 96689, 96707, 96724,
       96742, 96760, 96777, 96795, 96812, 96830, 96847, 96865, 96883, 96900, 96917, 96935, 96952, 96970, 96987, 97004, 97022, 97039, 97056, 97074, 97091, 97108, 97125, 97142,
       97160, 97177, 97194, 97211, 97228, 97245, 97262, 97279, 97296, 97313, 97330, 97347, 97364, 97381, 97398, 97415, 97432, 97448, 97465, 97482, 97499, 97515, 97532, 97549,
       97566, 97582, 97599, 97616, 97632, 97649, 97665, 97682, 97698, 97715, 97731, 97748, 97764, 97781, 97797, 97814, 97830, 97846, 97863, 97879, 97895, 97912, 97928, 97944,
       97960, 97977, 97993, 98009, 98025, 98041, 98057, 98074, 98090, 98106, 98122, 98138, 98154, 98170, 98186, 98202, 98218, 98234, 98250, 98265, 98281, 98297, 98313, 98329,
       98345, 98361, 98376, 98392, 98408, 98424, 98439, 98455, 98471, 98486, 98502, 98517, 98533, 98549, 98564, 98580, 98595, 98611, 98626, 98642, 98657, 98673, 98688, 98704,
       98719, 98734, 98750, 98765, 98781, 98796, 98811, 98826, 98842, 98857, 98872, 98887, 98903, 98918, 98933, 98948, 98963, 98978, 98994, 99009, 99024, 99039, 99054, 99069,
       99084, 99099, 99114, 99129, 99144, 99159, 99174, 99189, 99204, 99218, 99233, 99248, 99263, 99278, 99293, 99307, 99322, 99337, 99352, 99366, 99381, 99396, 99410, 99425,
       99440, 99454, 99469, 99484, 99498, 99513, 99527, 99542, 99556, 99571, 99586, 99600, 99614, 99629, 99643, 99658, 99672, 99687, 99701, 99715, 99730, 99744, 99758, 99773,
       99787, 99801, 99816, 99830, 99844, 99858, 99873, 99887, 99901, 99915, 99929, 99944, 99958, 99972, 99986, 100000, 100014, 100028, 100042, 100056, 100070, 100084, 100098, 100112,
       100126, 100140, 100154, 100168, 100182, 100196, 100210, 100224, 100238, 100251, 100265, 100279, 100293, 100307, 100320, 100334, 100348, 100362, 100375, 100389, 100403, 100417, 100430, 100444,
       100458, 100471, 100485, 100498, 100512, 100526, 100539, 100553, 100566, 100580, 100593, 100607, 100620, 100634, 100647, 100661, 100674, 100688, 100701, 100715, 100728, 100741, 100755, 100768,
       100782, 100795, 100808, 100821, 100835, 100848, 100861, 100875, 100888, 100901, 100914, 100928, 100941, 100954, 100967, 100980, 100993, 101007, 101020, 101033, 101046, 101059, 101072, 101085,
       101098, 101111, 101124, 101137, 101150, 101163, 101176, 101189, 101202, 101215, 101228, 101241, 101254, 101267, 101280, 101293, 101306, 101319, 101331, 101344, 101357, 101370, 101383, 101396,
       101408, 101421, 101434, 101447, 101459, 101472, 101485, 101497, 101510, 101523, 101536, 101548, 101561, 101573, 101586, 101599, 101611, 101624, 101636, 101649, 101662, 101674, 101687, 101699,
       101712, 101724, 101737, 101749, 101762, 101774, 101787, 101799, 101812, 101824, 101836, 101849, 101861, 101874, 101886, 101898, 101911, 101923, 101935, 101948, 101960, 101972, 101984, 101997,
       102009, 102021, 102033, 102046, 102058, 102070, 102082, 102095, 102107, 102119, 102131, 102143, 102155, 102167, 102180, 102192, 102204, 102216, 102228, 102240, 102252, 102264, 102276, 102288,
       102300, 102312, 102324, 102336, 102348, 102360, 102372, 102384, 102396, 102408, 102420, 102432, 102444, 102456, 102467, 102479, 102491, 102503, 102515, 102527, 102538, 102550, 102562, 102574,
       102586, 102597, 102609, 102621, 102633, 102644, 102656, 102668, 102680, 102691, 102703, 102715, 102726, 102738, 102750, 102761, 102773, 102784, 102796, 102808, 102819, 102831, 102842, 102854,
       102866, 102877, 102889, 102900, 102912, 102923, 102935, 102946, 102958, 102969, 102981, 102992, 103004, 103015, 103026, 103038, 103049, 103061, 103072, 103083, 103095, 103106, 103117, 103129,
       103140, 103151, 103163, 103174, 103185, 103197, 103208, 103219, 103231, 103242, 103253, 103264, 103276, 103287, 103298, 103309, 103320, 103332, 103343, 103354, 103365, 103376, 103387, 103399,
       103410, 103421, 103432, 103443, 103454, 103465, 103476, 103487, 103498, 103509, 103520, 103531, 103542, 103554, 103565, 103576, 103587, 103597, 103608, 103619, 103630, 103641, 103652, 103663,
       103674, 103685, 103696, 103707, 103718, 103729, 103740, 103750, 103761, 103772, 103783, 103794, 103805, 103815, 103826, 103837, 103848, 103859, 103869, 103880, 103891, 103902, 103912, 103923,
       103934, 103945, 103955, 103966, 103977, 103987, 103998, 104009, 104019, 104030, 104041, 104051, 104062, 104073, 104083, 104094, 104105, 104115, 104126, 104136, 104147, 104157, 104168, 104179,
       104189, 104200, 104210, 104221, 104231, 104242, 104252, 104263, 104273, 104284, 104294, 104305, 104315, 104325, 104336, 104346, 104357, 104367, 104378, 104388, 104398, 104409, 104419, 104429,
       104440, 104450, 104460, 104471, 104481, 104491, 104502, 104512, 104522, 104533, 104543, 104553, 104564, 104574, 104584, 104594, 104605, 104615, 104625, 104635, 104645, 104656, 104666, 104676,
       104686, 104696, 104707, 104717, 104727, 104737, 104747, 104757, 104767, 104778, 104788, 104798, 104808, 104818, 104828, 104838, 104848, 104858, 104868, 104878, 104888, 104898, 104909, 104919,
       104929, 104939, 104949, 104959, 104969, 104979, 104988, 104998, 105008, 105018, 105028, 105038, 105048, 105058, 105068, 105078, 105088, 105098, 105108, 105118, 105127, 105137, 105147, 105157,
       105167, 105177, 105187, 105196, 105206, 105216, 105226, 105236, 105245, 105255, 105265, 105275, 105285, 105294, 105304, 105314, 105324, 105333, 105343, 105353, 105362, 105372, 105382, 105392,
       105401, 105411, 105421, 105430, 105440, 105450, 105459, 105469, 105479, 105488, 105498, 105507, 105517, 105527, 105536, 105546, 105555, 105565, 105575, 105584, 105594, 105603, 105613, 105622,
       105632, 105641, 105651, 105661, 105670, 105680, 105689, 105699, 105708, 105718, 105727, 105736, 105746, 105755, 105765, 105774, 105784, 105793, 105803, 105812, 105821, 105831, 105840, 105850,
       105859, 105868, 105878, 105887, 105897, 105906, 105915, 105925, 105934, 105943, 105953, 105962, 105971, 105981, 105990, 105999, 106008, 106018, 106027, 106036, 106046, 106055, 106064, 106073,
       106083, 106092, 106101, 106110, 106119, 106129, 106138, 106147, 106156, 106165, 106175, 106184, 106193, 106202, 106211, 106221, 106230, 106239, 106248, 106257, 106266, 106275, 106284, 106294,
       106303, 106312, 106321, 106330, 106339, 106348, 106357, 106366, 106375, 106384, 106393, 106402, 106411, 106421, 106430, 106439, 106448, 106457, 106466, 106475, 106484, 106493, 106502, 106511,
       106519, 106528, 106537, 106546, 106555, 106564, 106573, 106582, 106591, 106600, 106609, 106618, 106627, 106636, 106644, 106653, 106662, 106671, 106680, 106689, 106698, 106707, 106715, 106724,
       106733, 106742, 106751, 106760, 106768, 106777, 106786, 106795, 106804, 106812, 106821, 106830, 106839, 106847, 106856, 106865, 106874, 106883, 106891, 106900, 106909, 106917, 106926, 106935,
       106944, 106952, 106961, 106970, 106978, 106987, 106996, 107004, 107013, 107022, 107030, 107039, 107048, 107056, 107065, 107074, 107082, 107091, 107099, 107108, 107117, 107125, 107134, 107142,
       107151, 107160, 107168, 107177, 107185, 107194, 107202, 107211, 107220, 107228, 107237, 107245, 107254, 107262, 107271, 107279, 107288, 107296, 107305, 107313, 107322, 107330, 107339, 107347,
       107356, 107364, 107372, 107381, 107389, 107398, 107406, 107415, 107423, 107432, 107440, 107448, 107457, 107465, 107474, 107482, 107490, 107499, 107507, 107515, 107524, 107532, 107541, 107549,
       107557, 107566, 107574, 107582, 107591, 107599, 107607, 107616, 107624, 107632, 107640, 107649, 107657, 107665, 107674, 107682, 107690, 107698, 107707, 107715, 107723, 107731, 107740, 107748,
       107756, 107764, 107773, 107781, 107789, 107797, 107805, 107814, 107822, 107830, 107838, 107846, 107855, 107863, 107871, 107879, 107887, 107895, 107903, 107912, 107920, 107928, 107936, 107944,
       107952, 107960, 107969, 107977, 107985, 107993, 108001, 108009, 108017, 108025, 108033, 108041, 108049, 108057, 108065, 108074, 108082, 108090, 108098, 108106, 108114, 108122, 108130, 108138,
       108146, 108154, 108162, 108170, 108178, 108186, 108194, 108202, 108210, 108218, 108226, 108234, 108242, 108250, 108258, 108265, 108273, 108281, 108289, 108297, 108305, 108313, 108321, 108329,
       108337, 108345, 108353, 108361, 108368, 108376, 108384, 108392, 108400, 108408, 108416, 108424, 108431, 108439, 108447, 108455, 108463, 108471, 108478, 108486, 108494, 108502, 108510, 108517,
       108525, 108533, 108541, 108549, 108556, 108564, 108572, 108580, 108588, 108595, 108603, 108611, 108619, 108626, 108634, 108642, 108650, 108657, 108665, 108673, 108681, 108688, 108696, 108704,
       108711, 108719, 108727, 108734, 108742, 108750, 108757, 108765, 108773, 108781, 108788, 108796, 108803, 108811, 108819, 108826, 108834, 108842, 108849, 108857, 108865, 108872, 108880, 108887,
       108895, 108903, 108910, 108918, 108925, 108933, 108941, 108948, 108956, 108963, 108971, 108978, 108986, 108994, 109001, 109009, 109016, 109024, 109031, 109039, 109046, 109054, 109061, 109069,
       109076, 109084, 109091, 109099, 109106, 109114, 109121, 109129, 109136, 109144, 109151, 109159, 109166, 109174, 109181, 109189, 109196, 109204, 109211, 109218, 109226, 109233, 109241, 109248,
       109256, 109263, 109270, 109278, 109285, 109293, 109300, 109307, 109315, 109322, 109330, 109337, 109344, 109352, 109359, 109366, 109374, 109381, 109388, 109396, 109403, 109410, 109418, 109425,
       109432, 109440, 109447, 109454, 109462, 109469, 109476, 109484, 109491, 109498, 109506, 109513, 109520, 109527, 109535, 109542, 109549, 109556, 109564, 109571, 109578, 109586, 109593, 109600,
       109607, 109614, 109622, 109629, 109636, 109643, 109651, 109658, 109665, 109672, 109679, 109687, 109694, 109701, 109708, 109715, 109723, 109730, 109737, 109744, 109751, 109758, 109766, 109773,
       109780, 109787, 109794, 109801, 109809, 109816, 109823, 109830, 109837, 109844, 109851, 109858, 109866, 109873, 109880, 109887, 109894, 109901, 109908, 109915, 109922, 109929, 109936, 109944,
       109951, 109958, 109965, 109972, 109979, 109986, 109993, 110000, 110007, 110014, 110021, 110028, 110035, 110042, 110049, 110056, 110063, 110070, 110077, 110084, 110091, 110098, 110105, 110112,
       110119, 110126, 110133, 110140, 110147, 110154, 110161, 110168, 110175, 110182, 110189, 110196, 110203, 110210, 110217, 110224, 110231, 110238, 110244, 110251, 110258, 110265, 110272, 110279,
       110286, 110293, 110300, 110307, 110314, 110320, 110327, 110334, 110341, 110348, 110355, 110362, 110369, 110375, 110382, 110389, 110396, 110403, 110410, 110417, 110423, 110430, 110437, 110444,
       110451, 110458, 110464, 110471, 110478, 110485, 110492, 110498, 110505, 110512, 110519, 110526, 110532, 110539, 110546, 110553, 110560, 110566, 110573, 110580, 110587, 110593, 110600, 110607,
       110614, 110620, 110627, 110634, 110641, 110647, 110654, 110661, 110668, 110674, 110681, 110688, 110694, 110701, 110708, 110715, 110721, 110728, 110735, 110741, 110748, 110755, 110761, 110768,
       110775, 110782, 110788, 110795, 110802, 110808, 110815, 110821, 110828, 110835, 110841, 110848, 110855, 110861, 110868, 110875, 110881, 110888, 110895, 110901, 110908, 110914, 110921, 110928,
       110934, 110941, 110947, 110954, 110961, 110967, 110974, 110980, 110987, 110993, 111000, 111007, 111013, 111020, 111026, 111033, 111039, 111046, 111053, 111059, 111066, 111072, 111079, 111085,
       111092, 111098, 111105, 111111, 111118, 111124, 111131, 111137, 111144, 111150, 111157, 111163, 111170, 111176, 111183, 111189, 111196, 111202, 111209, 111215, 111222, 111228, 111235, 111241,
       111248, 111254, 111261, 111267, 111273, 111280, 111286, 111293, 111299, 111306, 111312, 111319, 111325, 111331, 111338, 111344, 111351, 111357, 111364, 111370, 111376, 111383, 111389, 111396,
       111402, 111408, 111415, 111421, 111427, 111434, 111440, 111447, 111453, 111459, 111466, 111472, 111478, 111485, 111491, 111497, 111504, 111510, 111517, 111523, 111529, 111536, 111542, 111548,
       111555, 111561, 111567, 111573, 111580, 111586, 111592, 111599, 111605, 111611, 111618, 111624, 111630, 111636, 111643, 111649, 111655, 111662, 111668, 111674, 111680, 111687, 111693, 111699,
       111706, 111712, 111718, 111724, 111731, 111737, 111743, 111749, 111755, 111762, 111768, 111774, 111780, 111787, 111793, 111799, 111805, 111812, 111818, 111824, 111830, 111836, 111843, 111849,
       111855, 111861, 111867, 111874, 111880, 111886, 111892, 111898, 111904, 111911, 111917, 111923, 111929, 111935, 111941, 111948, 111954, 111960, 111966, 111972, 111978, 111984, 111991, 111997,
       112003, 112009, 112015, 112021, 112027, 112033, 112040, 112046, 112052, 112058, 112064, 112070, 112076, 112082, 112088, 112095, 112101, 112107, 112113, 112119, 112125, 112131, 112137, 112143,
       112149, 112155, 112161, 112167, 112174, 112180, 112186, 112192, 112198, 112204, 112210, 112216, 112222, 112228, 112234, 112240, 112246, 112252, 112258, 112264, 112270, 112276, 112282, 112288,
       112294, 112300, 112306, 112312, 112318, 112324, 112330, 112336, 112342, 112348, 112354, 112360, 112366, 112372, 112378, 112384, 112390, 112396, 112402, 112408, 112414, 112420, 112426, 112432,
       112438, 112444, 112450, 112456, 112461, 112467, 112473, 112479, 112485, 112491, 112497, 112503, 112509, 112515, 112521, 112527, 112533, 112538, 112544, 112550, 112556, 112562, 112568, 112574,
       112580, 112586, 112592, 112597, 112603, 112609, 112615, 112621, 112627, 112633, 112639, 112644, 112650, 112656, 112662, 112668, 112674, 112680, 112685, 112691, 112697, 112703, 112709, 112715,
       112720, 112726, 112732, 112738, 112744, 112750, 112755, 112761, 112767, 112773, 112779, 112784, 112790, 112796, 112802, 112808, 112814, 112819, 112825, 112831, 112837, 112842, 112848, 112854,
       112860, 112866, 112871, 112877, 112883, 112889, 112894, 112900, 112906, 112912, 112917, 112923, 112929, 112935, 112940, 112946, 112952, 112958, 112963, 112969, 112975, 112981, 112986, 112992,
       112998, 113004, 113009, 113015, 113021, 113026, 113032, 113038, 113044, 113049, 113055, 113061, 113066, 113072, 113078, 113083, 113089, 113095, 113100, 113106, 113112, 113117, 113123, 113129,
       113134, 113140, 113146, 113151, 113157, 113163, 113168, 113174, 113180, 113185, 113191, 113197, 113202, 113208, 113214, 113219, 113225, 113231, 113236, 113242, 113247, 113253, 113259, 113264,
       113270, 113276, 113281, 113287, 113292, 113298, 113304, 113309, 113315, 113320, 113326, 113332, 113337, 113343, 113348, 113354, 113359, 113365, 113371, 113376, 113382, 113387, 113393, 113399,
       113404, 113410, 113415, 113421, 113426, 113432, 113437, 113443, 113449, 113454, 113460, 113465, 113471, 113476, 113482, 113487, 113493, 113498, 113504, 113509, 113515, 113520, 113526, 113531,
       113537, 113542, 113548, 113554, 113559, 113565, 113570, 113576, 113581, 113587, 113592, 113597, 113603, 113608, 113614, 113619, 113625, 113630, 113636, 113641, 113647, 113652, 113658, 113663,
       113669, 113674, 113680, 113685, 113691, 113696, 113701, 113707, 113712, 113718, 113723, 113729, 113734, 113740, 113745, 113750, 113756, 113761, 113767, 113772, 113778, 113783, 113788, 113794,
       113799, 113805, 113810, 113815, 113821, 113826, 113832, 113837, 113842, 113848, 113853, 113859, 113864, 113869, 113875, 113880, 113886, 113891, 113896, 113902, 113907, 113912, 113918, 113923,
       113929, 113934, 113939, 113945, 113950, 113955, 113961, 113966, 113971, 113977, 113982, 113987, 113993, 113998, 114003, 114009, 114014, 114019, 114025, 114030, 114035, 114041, 114046, 114051,
       114057, 114062, 114067, 114073, 114078, 114083, 114089, 114094, 114099, 114105, 114110, 114115, 114120, 114126, 114131, 114136, 114142, 114147, 114152, 114157, 114163, 114168, 114173, 114179,
       114184, 114189, 114194, 114200, 114205, 114210, 114215, 114221, 114226, 114231, 114236, 114242, 114247, 114252, 114257, 114263, 114268, 114273, 114278, 114284, 114289, 114294, 114299, 114305,
       114310, 114315, 114320, 114325, 114331, 114336, 114341, 114346, 114351, 114357, 114362, 114367, 114372, 114378, 114383, 114388, 114393, 114398, 114404, 114409, 114414, 114419, 114424, 114429,
       114435, 114440, 114445, 114450, 114455, 114460, 114466, 114471, 114476, 114481, 114486, 114491, 114497, 114502, 114507, 114512, 114517, 114522, 114528, 114533, 114538, 114543, 114548, 114553,
       114558, 114564, 114569, 114574, 114579, 114584, 114589, 114594, 114599, 114605, 114610, 114615, 114620, 114625, 114630, 114635, 114640, 114645, 114651, 114656, 114661, 114666, 114671, 114676,
       114681, 114686, 114691, 114696, 114702, 114707, 114712, 114717, 114722, 114727, 114732, 114737, 114742, 114747, 114752, 114757, 114762, 114767, 114773, 114778, 114783, 114788, 114793, 114798,
       114803, 114808, 114813, 114818, 114823, 114828, 114833, 114838, 114843, 114848, 114853, 114858, 114863, 114868, 114873, 114878, 114883, 114888, 114893, 114898, 114903, 114909, 114914, 114919,
       114924, 114929, 114934, 114939, 114944, 114949, 114954, 114959, 114964, 114969, 114974, 114979, 114984, 114988, 114993, 114998, 115003, 115008, 115013, 115018, 115023, 115028, 115033, 115038,
       115043, 115048, 115053, 115058, 115063, 115068, 115073, 115078, 115083, 115088, 115093, 115098, 115103, 115108, 115113, 115118, 115122, 115127, 115132, 115137, 115142, 115147, 115152, 115157,
       115162, 115167, 115172, 115177, 115182, 115187, 115191, 115196, 115201, 115206, 115211, 115216, 115221, 115226, 115231, 115236, 115241, 115245, 115250, 115255, 115260, 115265, 115270, 115275,
       115280, 115285, 115289, 115294, 115299, 115304, 115309, 115314, 115319, 115324, 115328, 115333, 115338, 115343, 115348, 115353, 115358, 115362, 115367, 115372, 115377, 115382, 115387, 115392,
       115396, 115401, 115406, 115411, 115416, 115421, 115425, 115430, 115435, 115440, 115445, 115450, 115454, 115459, 115464, 115469, 115474, 115479, 115483, 115488, 115493, 115498, 115503, 115507,
       115512, 115517, 115522, 115527, 115531, 115536, 115541, 115546, 115551, 115555, 115560, 115565, 115570, 115575, 115579, 115584, 115589, 115594, 115599, 115603, 115608, 115613, 115618, 115622,
       115627, 115632, 115637, 115641, 115646, 115651, 115656, 115661, 115665, 115670, 115675, 115680, 115684, 115689, 115694, 115699, 115703, 115708, 115713, 115718, 115722, 115727, 115732, 115736,
       115741, 115746, 115751, 115755, 115760, 115765, 115770, 115774, 115779, 115784, 115788, 115793, 115798, 115803, 115807, 115812, 115817, 115821, 115826, 115831, 115836, 115840, 115845, 115850,
       115854, 115859, 115864, 115868, 115873, 115878, 115882, 115887, 115892, 115897, 115901, 115906, 115911, 115915, 115920, 115925, 115929, 115934, 115939, 115943, 115948, 115953, 115957, 115962,
       115967, 115971, 115976, 115981, 115985, 115990, 115994, 115999, 116004, 116008, 116013, 116018, 116022, 116027, 116032, 116036, 116041, 116046, 116050, 116055, 116059, 116064, 116069, 116073,
       116078, 116083, 116087, 116092, 116096, 116101, 116106, 116110, 116115, 116119, 116124, 116129, 116133, 116138, 116142, 116147, 116152, 116156, 116161, 116165, 116170, 116175, 116179, 116184,
       116188, 116193, 116198, 116202, 116207, 116211, 116216, 116221, 116225, 116230, 116234, 116239, 116243, 116248, 116253, 116257, 116262, 116266, 116271, 116275, 116280, 116284, 116289, 116294,
       116298, 116303, 116307, 116312, 116316, 116321, 116325, 116330, 116334, 116339, 116344, 116348, 116353, 116357, 116362, 116366, 116371, 116375, 116380, 116384, 116389, 116393, 116398, 116402,
       116407, 116411, 116416, 116421, 116425, 116430, 116434, 116439, 116443, 116448, 116452, 116457, 116461, 116466, 116470, 116475, 116479, 116484, 116488, 116493, 116497, 116502, 116506, 116511,
       116515, 116519, 116524, 116528, 116533, 116537, 116542, 116546, 116551, 116555, 116560, 116564, 116569, 116573, 116578, 116582, 116587, 116591, 116595, 116600, 116604, 116609, 116613, 116618,
       116622, 116627, 116631, 116636, 116640, 116644, 116649, 116653, 116658, 116662, 116667, 116671, 116676, 116680, 116684, 116689, 116693, 116698, 116702, 116707, 116711, 116715, 116720, 116724,
       116729, 116733, 116738, 116742, 116746, 116751, 116755, 116760, 116764, 116768, 116773, 116777, 116782, 116786, 116790, 116795, 116799, 116804, 116808, 116812, 116817, 116821, 116826, 116830,
       116834, 116839, 116843, 116847, 116852, 116856, 116861, 116865, 116869, 116874, 116878, 116883, 116887, 116891, 116896, 116900, 116904, 116909, 116913, 116917, 116922, 116926, 116931, 116935,
       116939, 116944, 116948, 116952, 116957, 116961, 116965, 116970, 116974, 116978, 116983, 116987, 116991, 116996, 117000, 117004, 117009, 117013, 117017, 117022, 117026, 117030, 117035, 117039,
       117043, 117048, 117052, 117056, 117061, 117065, 117069, 117074, 117078, 117082, 117087, 117091, 117095, 117099, 117104, 117108, 117112, 117117, 117121, 117125, 117130, 117134, 117138, 117142,
       117147, 117151, 117155, 117160, 117164, 117168, 117172, 117177, 117181, 117185, 117190, 117194, 117198, 117202, 117207, 117211, 117215, 117220, 117224, 117228, 117232, 117237, 117241, 117245,
       117249, 117254, 117258, 117262, 117266, 117271, 117275, 117279, 117283, 117288, 117292, 117296, 117300, 117305, 117309, 117313, 117317, 117322, 117326, 117330, 117334, 117339, 117343, 117347,
       117351, 117356, 117360, 117364, 117368, 117372, 117377, 117381, 117385, 117389, 117394, 117398, 117402, 117406, 117410, 117415, 117419, 117423, 117427, 117432, 117436, 117440, 117444, 117448,
       117453, 117457, 117461, 117465, 117469, 117474, 117478, 117482, 117486, 117490, 117495, 117499, 117503, 117507, 117511, 117515, 117520, 117524, 117528, 117532, 117536, 117541, 117545, 117549,
       117553, 117557, 117561, 117566, 117570, 117574, 117578, 117582, 117586, 117591, 117595, 117599, 117603, 117607, 117611, 117616, 117620, 117624, 117628, 117632, 117636, 117640, 117645, 117649,
       117653, 117657, 117661, 117665, 117669, 117674, 117678, 117682, 117686, 117690, 117694, 117698, 117703, 117707, 117711, 117715, 117719, 117723, 117727, 117731, 117736, 117740, 117744, 117748,
       117752, 117756, 117760, 117764, 117768, 117773, 117777, 117781, 117785, 117789, 117793, 117797, 117801, 117805, 117809, 117814, 117818, 117822, 117826, 117830, 117834, 117838, 117842, 117846,
       117850, 117855, 117859, 117863, 117867, 117871, 117875, 117879, 117883, 117887, 117891, 117895, 117899, 117903, 117908, 117912, 117916, 117920, 117924, 117928, 117932, 117936, 117940, 117944,
       117948, 117952, 117956, 117960, 117964, 117969, 117973, 117977, 117981, 117985, 117989, 117993, 117997, 118001, 118005, 118009, 118013, 118017, 118021, 118025, 118029, 118033, 118037, 118041,
       118045, 118049, 118053, 118057, 118061, 118065, 118070, 118074, 118078, 118082, 118086, 118090, 118094, 118098, 118102, 118106, 118110, 118114, 118118, 118122, 118126, 118130, 118134, 118138,
       118142, 118146, 118150, 118154, 118158, 118162, 118166, 118170, 118174, 118178, 118182, 118186, 118190, 118194, 118198, 118202, 118206, 118210, 118214, 118218, 118222, 118226, 118230, 118234,
       118238, 118242, 118246, 118250, 118254, 118258, 118262, 118265, 118269, 118273, 118277, 118281, 118285, 118289, 118293, 118297, 118301, 118305, 118309, 118313, 118317, 118321, 118325, 118329,
       118333, 118337, 118341, 118345, 118349, 118353, 118357, 118361, 118364, 118368, 118372, 118376, 118380, 118384, 118388, 118392, 118396, 118400, 118404, 118408, 118412, 118416, 118420, 118424,
       118427, 118431, 118435, 118439, 118443, 118447, 118451, 118455, 118459, 118463, 118467, 118471, 118474, 118478, 118482, 118486, 118490, 118494, 118498, 118502, 118506, 118510, 118514, 118517,
       118521, 118525, 118529, 118533, 118537, 118541, 118545, 118549, 118553, 118556, 118560, 118564, 118568, 118572, 118576, 118580, 118584, 118588, 118591, 118595, 118599, 118603, 118607, 118611,
       118615, 118619, 118622, 118626, 118630, 118634, 118638, 118642, 118646, 118650, 118653, 118657, 118661, 118665, 118669, 118673, 118677, 118681, 118684, 118688, 118692, 118696, 118700, 118704,
       118708, 118711, 118715, 118719, 118723, 118727, 118731, 118734, 118738, 118742, 118746, 118750, 118754, 118757, 118761, 118765, 118769, 118773, 118777, 118781, 118784, 118788, 118792, 118796,
       118800, 118803, 118807, 118811, 118815, 118819, 118823, 118826, 118830, 118834, 118838, 118842, 118846, 118849, 118853, 118857, 118861, 118865, 118868, 118872, 118876, 118880, 118884, 118887,
       118891, 118895, 118899, 118903, 118906, 118910, 118914, 118918, 118922, 118925, 118929, 118933, 118937, 118941, 118944, 118948, 118952, 118956, 118960, 118963, 118967, 118971, 118975, 118978,
       118982, 118986, 118990, 118994, 118997, 119001, 119005, 119009, 119012, 119016, 119020, 119024, 119028, 119031, 119035, 119039, 119043, 119046, 119050, 119054, 119058, 119061, 119065, 119069,
       119073, 119076, 119080, 119084, 119088, 119091, 119095, 119099, 119103, 119106, 119110, 119114, 119118, 119121, 119125, 119129, 119133, 119136, 119140, 119144, 119148, 119151, 119155, 119159,
       119163, 119166, 119170, 119174, 119177, 119181, 119185, 119189, 119192, 119196, 119200, 119204, 119207, 119211, 119215, 119218, 119222, 119226, 119230, 119233, 119237, 119241, 119244, 119248,
       119252, 119256, 119259, 119263, 119267, 119270, 119274, 119278, 119281, 119285, 119289, 119293, 119296, 119300, 119304, 119307, 119311, 119315, 119318, 119322, 119326, 119330, 119333, 119337,
       119341, 119344, 119348, 119352, 119355, 119359, 119363, 119366, 119370, 119374, 119377, 119381, 119385, 119388, 119392, 119396, 119399, 119403, 119407, 119410, 119414, 119418, 119421, 119425,
       119429, 119432, 119436, 119440, 119443, 119447, 119451, 119454, 119458, 119462, 119465, 119469, 119473, 119476, 119480, 119484, 119487, 119491, 119495, 119498, 119502, 119506, 119509, 119513,
       119516, 119520, 119524, 119527, 119531, 119535, 119538, 119542, 119546, 119549, 119553, 119556, 119560, 119564, 119567, 119571, 119575, 119578, 119582, 119586, 119589, 119593, 119596, 119600,
       119604, 119607, 119611, 119614, 119618, 119622, 119625, 119629, 119633, 119636, 119640, 119643, 119647, 119651, 119654, 119658, 119661, 119665, 119669, 119672, 119676, 119679, 119683, 119687,
       119690, 119694, 119697, 119701, 119705, 119708, 119712, 119715, 119719, 119723, 119726, 119730, 119733, 119737, 119741, 119744, 119748, 119751, 119755, 119758, 119762, 119766, 119769, 119773,
       119776, 119780, 119784, 119787, 119791, 119794, 119798, 119801, 119805, 119809, 119812, 119816, 119819, 119823, 119826, 119830, 119833, 119837, 119841, 119844, 119848, 119851, 119855, 119858,
       119862, 119866, 119869, 119873, 119876, 119880, 119883, 119887, 119890, 119894, 119897, 119901, 119905, 119908, 119912, 119915, 119919, 119922, 119926, 119929, 119933, 119936, 119940, 119944,
       119947, 119951, 119954, 119958, 119961, 119965, 119968, 119972, 119975, 119979, 119982, 119986, 119989, 119993, 119996, 120000, 120004 >>

\* Math.log2(f / n) in units of 1/10000
Log2Ratio(f, n) == Log2Table[f] - Log2Table[n]

RECURSIVE SumRange(_, _, _)
\* term[lo] + ... + term[hi]
SumRange(term, lo, hi) ==
    IF lo > hi THEN 0
    ELSE IF lo = hi THEN term[lo]
    ELSE LET mid == (lo + hi) \div 2
         IN  SumRange(term, lo, mid) + SumRange(term, mid + 1, hi)

\* frequency = new Array(256).fill(0); for (const byte of data) frequency[byte]++
Frequency(bytes) ==
    [b \in 0..255 |-> Cardinality({i \in DOMAIN bytes : bytes[i] = b})]

ShannonEntropy_perByte(bytes) ==
    LET frequency == Frequency(bytes)
        length == Len(bytes)
    IN  IF length = 0 THEN [num |-> 0, den |-> 1]
        ELSE [num |-> SumRange([i \in DOMAIN bytes |->
                                   0 - frequency[bytes[i]] * Log2Ratio(frequency[bytes[i]], length)],
                               1, length),
              den |-> length]

\* the loop `for (const freq of frequency) if (freq > 0) entropy -= p * Math.log2(p)`
ShannonEntropy(bytes) ==
    LET frequency == Frequency(bytes)
        length == Len(bytes)
    IN  IF length = 0 THEN [num |-> 0, den |-> 1]
        ELSE [num |-> SumRange([b \in 0..255 |->
                                   IF frequency[b] > 0
                                   THEN 0 - frequency[b] * Log2Ratio(frequency[b], length)
                                   ELSE 0],
                               0, 255),
              den |-> length]

\* calculateEntropy of the worker
calculateEntropy(bytes) == ShannonEntropy(bytes)

\* entropy > tenths / 10
Exceeds(entropy, tenths) ==
    LET t == tenths * (Log2Scale \div 10)
    IN  \/ entropy.num \div entropy.den > t
        \/ entropy.num \div entropy.den = t /\ entropy.num % entropy.den > 0

(***************************************************************************)
(* components/hex-analyzer.tsx: entropyAnalysis                            *)
(***************************************************************************)
ChunkSize == 256

\* parseInt(c, 16) of one hexadecimal digit in either case
HexDigitValue(c) ==
    IF \E k \in 1..16 : HexDigitsLower[k] = c
    THEN (CHOOSE k \in 1..16 : HexDigitsLower[k] = c) - 1
    ELSE (CHOOSE k \in 1..16 : HexDigitsUpper[k] = c) - 1

\* for (i = 0; i < fullHex.length; i += 2) bytes.push(parseInt(fullHex.substr(i, 2), 16))
HexToBytes(fullHex) ==
    [k \in 1..((Len(fullHex) + 1) \div 2) |->
        IF 2 * k <= Len(fullHex)
        THEN 16 * HexDigitValue(fullHex[2 * k - 1]) + HexDigitValue(fullHex[2 * k])
        ELSE HexDigitValue(fullHex[2 * k - 1])]

\* chunk.forEach(byte => { p = chunkFreq[byte] / chunk.length; chunkEntropy -= p * Math.log2(p) })
chunkEntropy(chunk) ==
    LET chunkFreq == Frequency(chunk)
    IN  [num |-> SumRange([i \in DOMAIN chunk |->
                             0 - chunkFreq[chunk[i]] * Log2Ratio(chunkFreq[chunk[i]], Len(chunk))],
                          1, Len(chunk)),
         den |-> Len(chunk)]

\* the entropy.toFixed(4) of a fraction, as a count of 1/10000
toFixed4(entropy) == MathRound(entropy.num, entropy.den)

assessment(entropy) ==
    IF Exceeds(entropy, 75) THEN "High (encrypted/compressed)"
    ELSE IF Exceeds(entropy, 65) THEN "Medium (mixed content)"
    ELSE IF Exceeds(entropy, 40) THEN "Low (structured data)"
    ELSE "Very Low (repetitive)"

\* Math.max(...frequency)
MaxFrequency(frequency) ==
    frequency[CHOOSE b \in 0..255 : \A c \in 0..255 : frequency[c] <= frequency[b]]

\* frequency.indexOf(value), for a value the array holds
FrequencyIndexOf(frequency, value) ==
    CHOOSE b \in 0..255 :
        /\ frequency[b] = value
        /\ \A c \in 0..(b - 1) : frequency[c] # value

\* frequency.indexOf(Math.max(...frequency))
MostCommonByte(frequency) == FrequencyIndexOf(frequency, MaxFrequency(frequency))

\* for (let i = 0; i < bytes.length; i += chunkSize) { chunk = bytes.slice(i, i + chunkSize); ... }
EntropyChunks(bytes) ==
    [k \in 1..((Len(bytes) + ChunkSize - 1) \div ChunkSize) |->
        LET i == (k - 1) * ChunkSize
            chunk == Slice(bytes, i, i + ChunkSize)
        IN  [offset |-> i, chunk |-> chunk, chunkEntropy |-> chunkEntropy(chunk)]]

\* if (chunkEntropy > 7.8) analysis.suspiciousAreas.push({offset: i, reason})
suspiciousAreas(bytes) ==
    LET flagged == SelectSeq(EntropyChunks(bytes), LAMBDA c : Exceeds(c.chunkEntropy, 78))
    IN  [k \in DOMAIN flagged |->
            [offset |-> flagged[k].offset, reason |-> flagged[k].chunkEntropy]]

entropyAnalysis(hd) ==
    LET bytes == HexToBytes(FullHex(hd))
        frequency == Frequency(bytes)
        entropy == ShannonEntropy(bytes)
    IN  [entropy |-> toFixed4(entropy),
         assessment |-> assessment(entropy),
         mostCommonByte |-> MostCommonByte(frequency),
         mostCommonFreq |-> MaxFrequency(frequency),
         uniqueBytes |-> Cardinality({b \in 0..255 : frequency[b] > 0}),
         suspiciousAreas |-> suspiciousAreas(bytes)]

(***************************************************************************)
(* Byte forensics on one file                                              *)
(***************************************************************************)
Repeat(b, n) == [i \in 1..n |-> b]

\* the pieces the analysed files are made of
Chunks ==
    { <<255, 216, 255, 224>>,       \* FF D8 FF E0
      <<137, 80, 78, 71>>,          \* 89 50 4E 47
      <<80, 75, 3, 4>>,             \* 50 4B 03 04
      <<37, 80, 68, 70>>,           \* 25 50 44 46
      <<71, 73, 70, 56>>,           \* 47 49 46 38
      <<5, 4, 176, 48, 64>>,        \* 05 04 B0 30 40
      <<255, 216, 255>>,            \* a truncated JPEG header
      <<225>>,                      \* E1
      <<0>>,
      <<255>>,
      Repeat(0, 10),
      Repeat(255, 5) }

RECURSIVE BuffersOf(_)
BuffersOf(n) ==
    IF n = 0 THEN {<<>>}
    ELSE BuffersOf(n - 1) \cup {b \o c : b \in BuffersOf(n - 1), c \in Chunks}

InputBuffers == BuffersOf(MaxChunks)

InitHex ==
    /\ pc = "idle"
    /\ sources = <<>>
    /\ exifSources = <<>>
    /\ consolidatedData = [f \in {} |-> None]
    /\ isAnalyzing = FALSE
    /\ runs = 0
    /\ data \in InputBuffers
    /\ hexResult = NoResponse
    /\ hexData = NoHexData
    /\ InitOthers

\* the response hexAnalysis posts for a buffer
HexResponse(bytes) ==
    [type |-> "HEX_RESULT",
     payload |-> [signature |-> analyzeFileSignature(bytes),
                  embeddedFiles |-> detectEmbeddedFiles(bytes),
                  entropy |-> calculateEntropy(bytes),
                  hexDump |-> generateHexDump(Slice(bytes, 0, WorkerDumpCap)),
                  fileSize |-> Len(bytes)]]

\* the worker's HEX_ANALYSIS handler
hexAnalysis ==
    /\ hexResult' = HexResponse(data)
    /\ UNCHANGED <<pc, sources, exifSources, consolidatedData, isAnalyzing, runs, data, hexData, others>>

\* the page's analyzeFile stores generateHexData(file) for the HexAnalyzer
analyzeFileHex ==
    /\ hexData' = generateHexData(data)
    /\ UNCHANGED <<pc, sources, exifSources, consolidatedData, isAnalyzing, runs, data, hexResult, others>>

NextHex == hexAnalysis \/ analyzeFileHex

SpecHex == InitHex /\ [][NextHex]_vars

(***************************************************************************)
(* Properties of the byte forensics                                        *)
(***************************************************************************)
Posted == hexResult.type = "HEX_RESULT"

Rendered == "lines" \in DOMAIN hexData

\* the bytes `sig` stand in `bytes` at byte offset o
BytesAt(bytes, sig, o) ==
    /\ o + Len(sig) <= Len(bytes)
    /\ \A k \in 1..Len(sig) : bytes[o + k] = sig[k]

HeaderTable ==
    << [bytes |-> <<255, 216, 255, 224>>, type |-> "JPEG (JFIF)"],
       [bytes |-> <<255, 216, 255, 225>>, type |-> "JPEG (EXIF)"],
       [bytes |-> <<137, 80, 78, 71>>,    type |-> "PNG"],
       [bytes |-> <<71, 73, 70, 56>>,     type |-> "GIF"] >>

EmbeddedTable ==
    << [bytes |-> <<255, 216, 255, 224>>, type |-> "JPEG"],
       [bytes |-> <<137, 80, 78, 71>>,    type |-> "PNG"],
       [bytes |-> <<80, 75, 3, 4>>,       type |-> "ZIP"],
       [bytes |-> <<37, 80, 68, 70>>,     type |-> "PDF"] >>

ZipBytes == <<80, 75, 3, 4>>

\* C6: signature detection always yields a result: JPEG (JFIF) or PNG with
\* confidence 100 for their magic bytes, the first matching table entry when
\* one matches, and Unknown with confidence 0 otherwise, also for empty and
\* short buffers.
C6_SignatureTotal ==
    Posted =>
        LET sig == hexResult.payload.signature
            matching == {n \in DOMAIN HeaderTable : BytesAt(data, HeaderTable[n].bytes, 0)}
        IN  /\ BytesAt(data, <<255, 216, 255, 224>>, 0) => sig = [type |-> "JPEG (JFIF)", confidence |-> 100]
            /\ BytesAt(data, <<137, 80, 78, 71>>, 0) => sig = [type |-> "PNG", confidence |-> 100]
            /\ matching = {} => sig = [type |-> "Unknown", confidence |-> 0]
            /\ matching # {} =>
                  sig = [type |-> HeaderTable[CHOOSE n \in matching : \A m \in matching : n <= m].type,
                         confidence |-> 100]

C6_Witness ==
    /\ Posted
    /\ Len(data) = 3
    /\ data = <<255, 216, 255>>
    /\ hexResult.payload.signature.type = "Unknown"

\* C7: the embedded-object scan never reports a hit at offset 0, even when
\* the buffer begins with a known signature.
C7_NoHitAtOffsetZero ==
    Posted =>
        \A n \in DOMAIN hexResult.payload.embeddedFiles :
            hexResult.payload.embeddedFiles[n].offset # HalfOf(0)

C7_Witness ==
    /\ Posted
    /\ BytesAt(data, ZipBytes, 0)
    /\ BytesAt(data, <<137, 80, 78, 71>>, 4)
    /\ Len(hexResult.payload.embeddedFiles) = 1

\* C8 (as claimed): every occurrence of a known signature at a byte offset
\* o > 0 within the first 10,000 bytes is reported as {type, offset o}, also
\* when the same signature stands at offset 0.
C8_EveryEmbeddedOccurrenceReported ==
    Posted =>
        \A n \in DOMAIN EmbeddedTable :
            \A o \in 1..Len(data) :
                (BytesAt(data, EmbeddedTable[n].bytes, o) /\ o + 4 <= ScanLimit) =>
                    \E h \in DOMAIN hexResult.payload.embeddedFiles :
                        hexResult.payload.embeddedFiles[h] = [type |-> EmbeddedTable[n].type, offset |-> HalfOf(2 * o)]

\* the pattern entry the scanner reports for the ZIP check, if any
ReportedPatterns == suspiciousPatterns(hexData)

Reported(source) == \E n \in DOMAIN ReportedPatterns : ReportedPatterns[n].pattern = source

\* C9 (as claimed): a ZIP signature at byte offset o of the rendered range is
\* reported by the pattern scanner as a high-severity ZIP pattern located at
\* o, and by the embedded-object scan as {ZIP, o}.
C9_ZipReportedAtByteOffset ==
    (Rendered /\ Posted) =>
        \A o \in 0..Len(data) :
            (BytesAt(data, ZipBytes, o) /\ o + 4 <= hexData.displayedBytes) =>
                /\ \E n \in DOMAIN ReportedPatterns :
                      /\ ReportedPatterns[n].pattern = "(504b0304|504b0506)"
                      /\ ReportedPatterns[n].severity = "high"
                      /\ \E l \in DOMAIN ReportedPatterns[n].locations :
                            ReportedPatterns[n].locations[l] = o
                /\ o > 0 =>
                      \E h \in DOMAIN hexResult.payload.embeddedFiles :
                          hexResult.payload.embeddedFiles[h] = [type |-> "ZIP", offset |-> HalfOf(2 * o)]

\* the scanned bytes hold at least n consecutive bytes equal to b
HasRun(bytes, b, n) ==
    \E o \in 0..(Len(bytes) - n) : \A k \in 1..n : bytes[o + k] = b

\* C10 (as claimed): the null-run pattern is reported exactly when the
\* scanned bytes hold at least 20 consecutive 0x00 bytes, the 0xFF-run
\* pattern exactly when they hold at least 10 consecutive 0xFF bytes.
C10_RunsReportedIffLongEnough ==
    Rendered =>
        LET scanned == Slice(data, 0, hexData.displayedBytes)
        IN  /\ Reported("00{20,}") <=> HasRun(scanned, 0, 20)
            /\ Reported("ff{10,}") <=> HasRun(scanned, 255, 10)


(***************************************************************************)
(* The HexAnalyzer component as a function of its hexData prop             *)
(***************************************************************************)
MaxPatternChunks == 2

\* byte runs that the pattern checks look for, and near misses
PatternChunks ==
    { <<80, 75, 3, 4>>,             \* 50 4B 03 04
      <<80, 75, 5, 6>>,             \* 50 4B 05 06
      <<37, 80, 68, 70>>,           \* 25 50 44 46
      <<77, 90>>,                   \* 4D 5A
      <<208, 207, 17, 224>>,        \* D0 CF 11 E0
      <<208, 207, 17>>,
      <<1>>,
      Repeat(0, 11),
      Repeat(255, 6) }

RECURSIVE PatternBuffersOf(_)
PatternBuffersOf(n) ==
    IF n = 0 THEN {<<>>}
    ELSE PatternBuffersOf(n - 1) \cup {b \o c : b \in PatternBuffersOf(n - 1), c \in PatternChunks}

\* n bytes cycling through the values 0 .. m-1
Ramp(n, m) == [i \in 1..n |-> (i - 1) % m]

EntropyLengths == {0, 1, 2, 3, 4, 256, 257, 512}

EntropyModuli == {1, 2, 3, 256}

EntropyBuffers == {Ramp(n, m) : n \in EntropyLengths, m \in EntropyModuli}

AnalyzerBuffers == PatternBuffersOf(MaxPatternChunks) \cup EntropyBuffers

\* a hexData prop whose rows are the worker's hexDump rows
hexDumpProps(bytes) ==
    [lines |-> generateHexDump(Slice(bytes, 0, WorkerDumpCap)),
     totalBytes |-> Len(bytes),
     displayedBytes |-> Min(Len(bytes), WorkerDumpCap)]

InitAnalyzerSpec ==
    /\ pc = "idle"
    /\ sources = <<>>
    /\ exifSources = <<>>
    /\ consolidatedData = [f \in {} |-> None]
    /\ isAnalyzing = FALSE
    /\ runs = 0
    /\ data \in AnalyzerBuffers
    /\ hexResult = NoResponse
    /\ hexData \in {generateHexData(data), hexDumpProps(data)}
    /\ InitOthers

\* HexAnalyzer({hexData}): the useMemo blocks computed on mount
renderHexAnalyzer ==
    /\ Rendered
    /\ analyzer' = [suspiciousPatterns |-> suspiciousPatterns(hexData),
                    entropyAnalysis |-> entropyAnalysis(hexData)]
    /\ UNCHANGED <<pc, sources, exifSources, consolidatedData, isAnalyzing, runs,
                   data, hexResult, hexData, hexRows, worker, ela, panels>>

NextAnalyzer == hexAnalysis \/ renderHexAnalyzer

SpecAnalyzer == InitAnalyzerSpec /\ [][NextAnalyzer]_vars

(***************************************************************************)
(* Properties of the HexAnalyzer                                           *)
(***************************************************************************)
Mounted == "suspiciousPatterns" \in DOMAIN analyzer

\* the severity the specification assigns to each pattern type
SpecifiedSeverity ==
    [p \in {"00{20,}", "ff{10,}", "(504b0304|504b0506)", "25504446", "(4d5a|5a4d)", "d0cf11e0"} |->
        CASE p = "00{20,}" -> "medium"
          [] p = "ff{10,}" -> "medium"
          [] p = "(504b0304|504b0506)" -> "high"
          [] p = "25504446" -> "high"
          [] p = "(4d5a|5a4d)" -> "critical"
          [] p = "d0cf11e0" -> "high"]

\* C11 (as claimed): every reported pattern carries the severity of its
\* type: runs of 0x00 and of 0xFF medium; ZIP, PDF and OLE signatures high;
\* PE signatures critical.
C11_SeverityByType ==
    Mounted =>
        \A n \in DOMAIN analyzer.suspiciousPatterns :
            analyzer.suspiciousPatterns[n].severity =
                SpecifiedSeverity[analyzer.suspiciousPatterns[n].pattern]

\* the bytes the HexAnalyzer was given
AnalyzedBytes == Slice(data, 0, hexData.displayedBytes)

AllIdentical(bytes) == Len(bytes) > 0 /\ \A i \in DOMAIN bytes : bytes[i] = bytes[1]

\* each of the 256 byte values occurs, and all equally often
Uniform256(bytes) ==
    /\ Len(bytes) > 0
    /\ Len(bytes) % 256 = 0
    /\ \A b \in 0..255 : Cardinality({i \in DOMAIN bytes : bytes[i] = b}) = Len(bytes) \div 256

EightBits == 8 * Log2Scale

\* C12: the entropy of a buffer is 0 when the buffer is empty (and the chunk
\* analysis then has no chunk) or holds one repeated value, 8 when all 256
\* values occur equally often, and always lies between 0 and 8 bits.
C12_EntropyRange ==
    /\ Posted =>
          LET e == hexResult.payload.entropy
          IN  /\ 0 <= e.num /\ e.num <= EightBits * e.den
              /\ Len(data) = 0 => e.num = 0
              /\ AllIdentical(data) => e.num = 0
              /\ Uniform256(data) => e.num = EightBits * e.den
    /\ Mounted =>
          LET e == analyzer.entropyAnalysis.entropy
          IN  /\ 0 <= e /\ e <= EightBits
              /\ Len(AnalyzedBytes) = 0 =>
                    /\ e = 0
                    /\ EntropyChunks(AnalyzedBytes) = <<>>
                    /\ analyzer.entropyAnalysis.suspiciousAreas = <<>>
              /\ AllIdentical(AnalyzedBytes) => e = 0
              /\ Uniform256(AnalyzedBytes) => e = EightBits

C12_Witness ==
    /\ Posted
    /\ Mounted
    /\ Len(data) = 512
    /\ Uniform256(data)
    /\ hexResult.payload.entropy = [num |-> EightBits * 512, den |-> 512]
    /\ analyzer.entropyAnalysis.entropy = EightBits

\* the offsets of the chunks the analysis flagged
FlaggedOffsets ==
    {analyzer.entropyAnalysis.suspiciousAreas[n].offset :
        n \in DOMAIN analyzer.entropyAnalysis.suspiciousAreas}

\* C13 (as claimed): the entropy computed for each 256-byte chunk is the
\* Shannon entropy of that chunk, lies between 0 and 8 bits, and the chunk
\* is flagged exactly when that entropy exceeds the threshold of 7.8; a
\* chunk of two values in equal numbers has entropy 1 and is not flagged.
C13_ChunkEntropyIsShannon ==
    Mounted =>
        \A k \in DOMAIN EntropyChunks(AnalyzedBytes) :
            LET c == EntropyChunks(AnalyzedBytes)[k]
                shannon == ShannonEntropy(c.chunk)
            IN  /\ toFixed4(c.chunkEntropy) = toFixed4(shannon)
                /\ 0 <= c.chunkEntropy.num
                /\ ~Exceeds(c.chunkEntropy, 80)
                /\ c.offset \in FlaggedOffsets <=> Exceeds(shannon, 78)

(***************************************************************************)
(* The three hex renderers on buffers around the row size and the caps     *)
(***************************************************************************)
MaxSmallLen == 33

RenderLengths ==
    (0..MaxSmallLen) \cup {WorkerDumpCap, WorkerDumpCap + 1, PageDumpCap + 1}

RenderBuffers == {Ramp(n, 256) : n \in RenderLengths} \cup {Ramp(n, 7) : n \in 1..MaxSmallLen}

InitRender ==
    /\ pc = "idle"
    /\ sources = <<>>
    /\ exifSources = <<>>
    /\ consolidatedData = [f \in {} |-> None]
    /\ isAnalyzing = FALSE
    /\ runs = 0
    /\ data \in RenderBuffers
    /\ hexResult = NoResponse
    /\ hexData = NoHexData
    /\ InitOthers

\* generateHexDump(buffer) of hex-utils
hexUtilsDump ==
    /\ hexRows' = [rows |-> hexUtils_generateHexDump(data)]
    /\ UNCHANGED <<pc, sources, exifSources, consolidatedData, isAnalyzing, runs,
                   data, hexResult, hexData, analyzer, worker, ela, panels>>

NextRender == hexAnalysis \/ analyzeFileHex \/ hexUtilsDump

SpecRender == InitRender /\ [][NextRender]_vars

(***************************************************************************)
(* Properties of the renderers                                             *)
(***************************************************************************)
Dumped == "rows" \in DOMAIN hexRows

\* the least k with 16 k >= n
CeilOfSixteenth(n) == CHOOSE k \in 0..n : 16 * k >= n /\ (k = 0 \/ 16 * (k - 1) < n)

UpperHexDigits == {"0", "1", "2", "3", "4", "5", "6", "7", "8", "9", "A", "B", "C", "D", "E", "F"}

RECURSIVE HexNumber(_)
\* the number a string of hexadecimal digits denotes
HexNumber(str) ==
    IF Len(str) = 0 THEN 0
    ELSE 16 * HexNumber(SubSeq(str, 1, Len(str) - 1)) + HexDigitValue(str[Len(str)])

\* the bytes written in a sequence of rows, spaces and padding ignored
ParseRows(rows) == HexToBytes(Concat([r \in DOMAIN rows |-> StripSpaces(rows[r].hex)]))

\* rows render the first n bytes of data, 16 to a row, each under its offset
RowsCover(rows, n) ==
    /\ Len(rows) = CeilOfSixteenth(n)
    /\ \A i \in 0..(Len(rows) - 1) :
          /\ Len(rows[i + 1].ascii) = Min(16 * i + 16, n) - 16 * i
          /\ HexToBytes(StripSpaces(rows[i + 1].hex)) = Slice(data, 16 * i, Min(16 * i + 16, n))
          /\ Len(rows[i + 1].offset) = 8
          /\ \A k \in 1..8 : rows[i + 1].offset[k] \in UpperHexDigits
          /\ HexNumber(rows[i + 1].offset) = 16 * i

\* C14: a range of n bytes is rendered as ceil(n/16) rows in order, row i
\* covering bytes 16i .. min(16i+16, n) under the offset 16i written as 8
\* zero-padded upper-case hex digits; n is min(file length, 2048) in
\* hexAnalysis and min(file length, 4096) in generateHexData, whose
\* displayedBytes equals n.
C14_RowsAndOffsets ==
    /\ Posted => RowsCover(hexResult.payload.hexDump, Min(Len(data), 2048))
    /\ Rendered =>
          /\ RowsCover(hexData.lines, Min(Len(data), 4096))
          /\ hexData.displayedBytes = Min(Len(data), 4096)

C14_Witness ==
    /\ Posted
    /\ Rendered
    /\ Len(data) = 4097
    /\ Len(hexResult.payload.hexDump) = 128
    /\ Len(hexData.lines) = 256
    /\ hexData.lines[256].offset = <<"0", "0", "0", "0", "0", "F", "F", "0">>

\* C15: parsing the hex fields of the rendered rows, in row order and
\* ignoring spaces and padding, gives back the rendered byte range, for the
\* worker's generateHexDump, for generateHexData and for the hex-utils
\* generateHexDump.
C15_RoundTrip ==
    /\ Posted => ParseRows(hexResult.payload.hexDump) = Slice(data, 0, WorkerDumpCap)
    /\ Rendered => ParseRows(hexData.lines) = Slice(data, 0, PageDumpCap)
    /\ Dumped => ParseRows(hexRows.rows) = data

C15_Witness ==
    /\ Posted
    /\ Rendered
    /\ Dumped
    /\ Len(data) = 33
    /\ data[11] = 10
    /\ ParseRows(hexRows.rows) = data
    /\ hexRows.rows[3].hex = <<"2", "0">>

(***************************************************************************)
(* workers/exif-worker.ts: message handling                                *)
(*                                                                         *)
(* worker.inbox holds the messages not yet delivered, worker.handlers one  *)
(* record per onmessage call in order of delivery, worker.outbox the       *)
(* posted messages in order, each tagged with the call that posted it.     *)
(* A file stands for its buffer by what EXIF.parse does with it.           *)
(***************************************************************************)
MaxFiles == 2
MaxMessages == 2

Null == "null"

\* error instanceof Error ? error.message : 'Unknown error'
errorMessage(thrown) == IF thrown.isError THEN thrown.message ELSE "Unknown error"

Rejected(thrown) == [settled |-> "rejected", reason |-> thrown]

Fulfilled(value) == [settled |-> "fulfilled", value |-> value]

\* value.key is present and a truthy string
TruthyString(d, key) == key \in DOMAIN d /\ d[key] # ""

\* value.key is present and a truthy number
TruthyNumber(d, key) == key \in DOMAIN d /\ d[key] # 0

\* the date strings, by their rank in string order; null is 0
DateOr(d, first, second) ==
    IF first \in DOMAIN d /\ d[first] # 0 THEN d[first]
    ELSE IF second \in DOMAIN d /\ d[second] # 0 THEN d[second]
    ELSE 0

\* exifData.Make && exifData.Model ? `${Make} ${Model}` : 'Unknown'
cameraOf(exifData) ==
    IF TruthyString(exifData, "Make") /\ TruthyString(exifData, "Model")
    THEN exifData.Make \o " " \o exifData.Model
    ELSE "Unknown"

\* summary.cameras[camera] = (summary.cameras[camera] || 0) + 1
CountCamera(cameras, camera) ==
    IF camera \in DOMAIN cameras
    THEN [cameras EXCEPT ![camera] = @ + 1]
    ELSE cameras @@ (camera :> 1)

\* the body of results.forEach in generateBatchSummary
SummaryStep(summary, result) ==
    IF result.status = "success" /\ ~result.exifData.nullish
    THEN LET exifData == result.exifData.fields
             dateStr == DateOr(exifData, "DateTimeOriginal", "DateTime")
             earliest == summary.dateRange.earliest
             latest == summary.dateRange.latest
         IN  [summary EXCEPT
                 !.withGPS = IF TruthyNumber(exifData, "latitude") /\ TruthyNumber(exifData, "longitude")
                             THEN @ + 1 ELSE @,
                 !.cameras = CountCamera(@, cameraOf(exifData)),
                 !.dateRange = IF dateStr = 0 THEN @
                               ELSE [earliest |-> IF earliest = 0 \/ dateStr < earliest THEN dateStr ELSE earliest,
                                     latest |-> IF latest = 0 \/ dateStr > latest THEN dateStr ELSE latest]]
    ELSE summary

RECURSIVE SummaryFold(_, _, _)
SummaryFold(summary, results, k) ==
    IF k > Len(results) THEN summary
    ELSE SummaryFold(SummaryStep(summary, results[k]), results, k + 1)

generateBatchSummary(results) ==
    SummaryFold([totalFiles |-> Len(results),
                 successful |-> Cardinality({k \in DOMAIN results : results[k].status = "success"}),
                 errors |-> Cardinality({k \in DOMAIN results : results[k].status = "error"}),
                 withGPS |-> 0,
                 cameras |-> <<>>,
                 dateRange |-> [earliest |-> 0, latest |-> 0]],
                results, 1)

\* the five computed fields of processExif; the metadata drawn here has no
\* FocalLength, FNumber, ExposureTime or ISO, so every calculate* returns null
EnhancedKeys ==
    {"focalLength35mm", "hyperfocalDistance", "depthOfField", "exposureValue", "lightValue"}

enhancedData(exifData) == exifData @@ [k \in EnhancedKeys |-> Null]

Post(out, req, type, payload) == Append(out, [req |-> req, type |-> type, payload |-> payload])

ProgressOf_zeroBased(files, i) == [current |-> i, total |-> Len(files), fileName |-> files[i + 1].name]

\* the PROGRESS payload posted before file i is parsed
ProgressOf(files, i) == [current |-> i + 1, total |-> Len(files), fileName |-> files[i + 1].name]

BatchResult(results) == [results |-> results, summary |-> generateBatchSummary(results)]

KnownTypes == {"PROCESS_EXIF", "BATCH_PROCESS", "HEX_ANALYSIS"}

MissingPayload == [missing |-> TRUE]

IsMissing(payload) == "missing" \in DOMAIN payload

\* self.onmessage up to its first suspension
onmessage ==
    /\ Len(worker.inbox) > 0
    /\ LET msg == Head(worker.inbox)
           req == Len(worker.handlers) + 1
           run(phase) == [type |-> msg.type, payload |-> msg.payload, phase |-> phase,
                          i |-> 0, results |-> <<>>]
           next(handler, out) ==
               worker' = [inbox |-> Tail(worker.inbox),
                          handlers |-> Append(worker.handlers, handler),
                          outbox |-> out]
       IN  IF msg.type \notin KnownTypes
           THEN next(run("done"),
                     Post(worker.outbox, req, "ERROR", [error |-> "Unknown message type: " \o msg.type]))
           ELSE IF IsMissing(msg.payload)
           THEN next(run("done"), Post(worker.outbox, req, "ERROR", [error |-> "TypeError"]))
           ELSE IF msg.type = "PROCESS_EXIF"
           THEN next(run("parsing"), worker.outbox)
           ELSE IF msg.type = "HEX_ANALYSIS"
           THEN next(run("done"),
                     Post(worker.outbox, req, "HEX_RESULT",
                          HexResponse(msg.payload.fileBuffer).payload @@ [fileName |-> msg.payload.fileName]))
           ELSE IF Len(msg.payload.files) = 0
           THEN next(run("done"), Post(worker.outbox, req, "BATCH_RESULT", BatchResult(<<>>)))
           ELSE next(run("parsing"),
                     Post(worker.outbox, req, "PROGRESS", ProgressOf(msg.payload.files, 0)))
    /\ UNCHANGED <<pc, sources, exifSources, consolidatedData, isAnalyzing, runs,
                   data, hexResult, hexData, analyzer, hexRows, ela, panels>>

\* the entry batchProcess pushes once EXIF.parse of a file has settled
ResultEntry(file) ==
    IF file.parse.settled = "fulfilled"
    THEN [fileName |-> file.name, exifData |-> file.parse.value, status |-> "success"]
    ELSE [fileName |-> file.name, error |-> errorMessage(file.parse.reason), status |-> "error"]

\* what processExif posts once EXIF.parse has settled
ExifResponse(payload) ==
    IF payload.parse.settled = "rejected"
    THEN [type |-> "ERROR", payload |-> [error |-> errorMessage(payload.parse.reason)]]
    ELSE IF payload.parse.value.nullish
    THEN [type |-> "ERROR", payload |-> [error |-> "TypeError"]]
    ELSE [type |-> "EXIF_RESULT",
          payload |-> [fileName |-> payload.fileName,
                       exifData |-> enhancedData(payload.parse.value.fields)]]

\* an awaited EXIF.parse settles and its handler runs to the next suspension
parseSettles_stopOnError ==
    \E req \in DOMAIN worker.handlers :
        LET h == worker.handlers[req] IN
        /\ h.phase = "parsing"
        /\ IF h.type = "PROCESS_EXIF"
           THEN worker' = [worker EXCEPT
                              !.handlers[req].phase = "done",
                              !.outbox = Post(@, req, ExifResponse(h.payload).type,
                                              ExifResponse(h.payload).payload)]
           ELSE LET files == h.payload.files
                    results == Append(h.results, ResultEntry(files[h.i + 1]))
                IN  IF files[h.i + 1].parse.settled = "rejected"
                    THEN worker' = [worker EXCEPT
                                       !.handlers[req].phase = "done",
                                       !.outbox = Post(@, req, "ERROR",
                                                       [error |-> errorMessage(files[h.i + 1].parse.reason)])]
                    ELSE IF h.i + 1 < Len(files)
                    THEN worker' = [worker EXCEPT
                                       !.handlers[req].i = h.i + 1,
                                       !.handlers[req].results = results,
                                       !.outbox = Post(@, req, "PROGRESS", ProgressOf(files, h.i + 1))]
                    ELSE worker' = [worker EXCEPT
                                       !.handlers[req].phase = "done",
                                       !.handlers[req].i = h.i + 1,
                                       !.handlers[req].results = results,
                                       !.outbox = Post(@, req, "BATCH_RESULT", BatchResult(results))]
        /\ UNCHANGED <<pc, sources, exifSources, consolidatedData, isAnalyzing, runs,
                       data, hexResult, hexData, analyzer, hexRows, ela, panels>>

\* an awaited EXIF.parse settles and its handler runs to the next suspension
parseSettles ==
    \E req \in DOMAIN worker.handlers :
        LET h == worker.handlers[req] IN
        /\ h.phase = "parsing"
        /\ IF h.type = "PROCESS_EXIF"
           THEN worker' = [worker EXCEPT
                              !.handlers[req].phase = "done",
                              !.outbox = Post(@, req, ExifResponse(h.payload).type,
                                              ExifResponse(h.payload).payload)]
           ELSE LET files == h.payload.files
                    results == Append(h.results, ResultEntry(files[h.i + 1]))
                IN  IF h.i + 1 < Len(files)
                    THEN worker' = [worker EXCEPT
                                       !.handlers[req].i = h.i + 1,
                                       !.handlers[req].results = results,
                                       !.outbox = Post(@, req, "PROGRESS", ProgressOf(files, h.i + 1))]
                    ELSE worker' = [worker EXCEPT
                                       !.handlers[req].phase = "done",
                                       !.handlers[req].i = h.i + 1,
                                       !.handlers[req].results = results,
                                       !.outbox = Post(@, req, "BATCH_RESULT", BatchResult(results))]
        /\ UNCHANGED <<pc, sources, exifSources, consolidatedData, isAnalyzing, runs,
                       data, hexResult, hexData, analyzer, hexRows, ela, panels>>

\* what EXIF.parse can find in a file
CameraFields == {EmptyData, [Make |-> "Canon", Model |-> "EOS"], [Make |-> "Canon"]}

GpsFields == {EmptyData, [latitude |-> 0, longitude |-> 10], [latitude |-> 48, longitude |-> 11]}

DateFields == {EmptyData, [DateTimeOriginal |-> 2], [DateTime |-> 1]}

Metadata ==
    {c @@ g : c \in CameraFields, g \in GpsFields}
        \cup {[Make |-> "Canon", Model |-> "EOS"] @@ d : d \in DateFields}

ParseOutcomes ==
    {Fulfilled(Resolved(d)) : d \in Metadata} \cup {Fulfilled(NoMetadata)}
        \cup {Rejected(t) : t \in Thrown}

FewOutcomes ==
    {Fulfilled(Resolved([Make |-> "Canon", Model |-> "EOS"])), Fulfilled(NoMetadata),
     Rejected([isError |-> TRUE, message |-> "parse failed"])}

\* the lists of at most n files whose parse outcomes are drawn from `outcomes`
FileLists(outcomes, n) ==
    UNION {{[k \in 1..len |-> [name |-> k, parse |-> o[k]]] : o \in [1..len -> outcomes]} : len \in 0..n}

BatchMessage(files) == [type |-> "BATCH_PROCESS", payload |-> [files |-> files]]

\* messages that arrive while earlier ones are still being handled
FewMessages ==
    {[type |-> "PROCESS_EXIF", payload |-> [fileName |-> 1, parse |-> o]] : o \in FewOutcomes}
        \cup {[type |-> "HEX_ANALYSIS", payload |-> [fileName |-> 1, fileBuffer |-> <<0, 255, 216, 255, 224>>]],
              [type |-> "RESIZE", payload |-> MissingPayload],
              [type |-> "BATCH_PROCESS", payload |-> MissingPayload],
              BatchMessage(<<>>),
              BatchMessage(<<[name |-> 1, parse |-> Fulfilled(Resolved([Make |-> "Canon", Model |-> "EOS"]))],
                             [name |-> 2, parse |-> Rejected([isError |-> TRUE, message |-> "parse failed"])]>>)}

RECURSIVE InboxesOf(_, _)
InboxesOf(messages, n) ==
    IF n = 0 THEN {<<>>}
    ELSE InboxesOf(messages, n - 1)
            \cup {Append(q, msg) : q \in InboxesOf(messages, n - 1), msg \in messages}

\* one batch of files of any kind, or a few messages arriving one after another
Inboxes ==
    {<<BatchMessage(f)>> : f \in FileLists(ParseOutcomes, MaxFiles)}
        \cup InboxesOf(FewMessages, MaxMessages)

InitWorkerSpec ==
    /\ pc = "idle"
    /\ sources = <<>>
    /\ exifSources = <<>>
    /\ consolidatedData = [f \in {} |-> None]
    /\ isAnalyzing = FALSE
    /\ runs = 0
    /\ data = <<>>
    /\ hexResult = NoResponse
    /\ hexData = NoHexData
    /\ InitAnalyzer
    /\ hexRows = NoHexData
    /\ worker \in {[inbox |-> q, handlers |-> <<>>, outbox |-> <<>>] : q \in Inboxes}
    /\ InitELA
    /\ InitPanels

NextWorker == onmessage \/ parseSettles

SpecWorker == InitWorkerSpec /\ [][NextWorker]_vars

(***************************************************************************)
(* Properties of the worker                                                *)
(***************************************************************************)
\* the BATCH_RESULT messages posted so far
BatchResults == {k \in DOMAIN worker.outbox : worker.outbox[k].type = "BATCH_RESULT"}

Successes(results) == {i \in DOMAIN results : results[i].status = "success"}

\* the camera label the specification gives a successful result
LabelOf(result) ==
    IF /\ ~result.exifData.nullish
       /\ "Make" \in DOMAIN result.exifData.fields
       /\ "Model" \in DOMAIN result.exifData.fields
    THEN result.exifData.fields.Make \o " " \o result.exifData.fields.Model
    ELSE "Unknown"

RECURSIVE SumOfCounts(_, _)
SumOfCounts(counts, keys) ==
    IF keys = {} THEN 0
    ELSE LET key == CHOOSE c \in keys : TRUE
         IN  counts[key] + SumOfCounts(counts, keys \ {key})

\* C16 (as claimed): the batch summary counts every successful file exactly
\* once in cameras, under "{Make} {Model}" or under "Unknown"; the entries
\* of cameras sum to the number of successful files; error files are not
\* counted.
C16_CamerasCountEverySuccess ==
    \A k \in BatchResults :
        LET results == worker.outbox[k].payload.results
            summary == worker.outbox[k].payload.summary
            labels == {LabelOf(results[i]) : i \in Successes(results)}
        IN  /\ DOMAIN summary.cameras = labels
            /\ \A label \in labels :
                  summary.cameras[label] =
                      Cardinality({i \in Successes(results) : LabelOf(results[i]) = label})
            /\ SumOfCounts(summary.cameras, DOMAIN summary.cameras) = summary.successful

\* C17 (as claimed): withGPS is the number of successful files whose
\* metadata has both a latitude and a longitude, whatever their values;
\* withGPS <= successful and totalFiles = successful + errors.
C17_WithGPSCountsPresence ==
    \A k \in BatchResults :
        LET results == worker.outbox[k].payload.results
            summary == worker.outbox[k].payload.summary
        IN  /\ summary.withGPS =
                  Cardinality({i \in Successes(results) :
                                  /\ ~results[i].exifData.nullish
                                  /\ "latitude" \in DOMAIN results[i].exifData.fields
                                  /\ "longitude" \in DOMAIN results[i].exifData.fields})
            /\ summary.withGPS <= summary.successful
            /\ summary.totalFiles = summary.successful + summary.errors

IsBatch(h) == h.type = "BATCH_PROCESS" /\ ~IsMissing(h.payload)

\* C18: the results of a batch of n files are n entries in input order;
\* entry i is an error entry carrying the reason exactly when the
\* extraction of file i threw, and a success entry carrying what the
\* extraction returned otherwise, whatever happened to the other files.
C18_OneEntryPerFile ==
    \A req \in DOMAIN worker.handlers :
        (IsBatch(worker.handlers[req]) /\ worker.handlers[req].phase = "done") =>
            \E k \in BatchResults :
                LET results == worker.outbox[k].payload.results
                    files == worker.handlers[req].payload.files
                IN  /\ worker.outbox[k].req = req
                    /\ Len(results) = Len(files)
                    /\ \A i \in DOMAIN files :
                          /\ results[i].fileName = files[i].name
                          /\ results[i].status = "error" <=> files[i].parse.settled = "rejected"
                          /\ results[i].status = "success" <=> files[i].parse.settled = "fulfilled"
                          /\ files[i].parse.settled = "rejected" =>
                                /\ "error" \in DOMAIN results[i]
                                /\ results[i].error = errorMessage(files[i].parse.reason)
                          /\ files[i].parse.settled = "fulfilled" =>
                                results[i].exifData = files[i].parse.value

C18_Witness ==
    \E k \in BatchResults :
        LET results == worker.outbox[k].payload.results
        IN  /\ Len(results) = 2
            /\ results[1].status = "error"
            /\ results[1].error = "parse failed"
            /\ results[2].status = "success"
            /\ results[2].exifData.fields = [Make |-> "Canon", Model |-> "EOS"]

TerminalTypes == {"EXIF_RESULT", "BATCH_RESULT", "HEX_RESULT", "ERROR"}

\* the messages call req has posted, in order
PostedBy(req) == SelectSeq(worker.outbox, LAMBDA m : m.req = req)

\* C19: a batch of n files posts PROGRESS messages with current = 1..n in
\* order and total = n, each before its file is parsed, and then exactly
\* one BATCH_RESULT; every received message, also one of unknown type or
\* one whose handler throws, is answered by exactly one terminal response,
\* after which its call posts nothing.
C19_ProgressThenOneTerminal ==
    \A req \in DOMAIN worker.handlers :
        LET h == worker.handlers[req]
            posted == PostedBy(req)
            terminals == {k \in DOMAIN posted : posted[k].type \in TerminalTypes}
        IN  /\ \A k \in DOMAIN posted : posted[k].type \in TerminalTypes \cup {"PROGRESS"}
            /\ h.phase = "done" => terminals = {Len(posted)}
            /\ h.phase # "done" => terminals = {}
            /\ IsBatch(h) =>
                  LET n == Len(h.payload.files)
                      progress == SelectSeq(posted, LAMBDA m : m.type = "PROGRESS")
                  IN  /\ Len(progress) = Min(Len(h.results) + 1, n)
                      /\ \A k \in DOMAIN progress :
                            /\ progress[k].payload.current = k
                            /\ progress[k].payload.total = n
                            /\ progress[k].payload.fileName = h.payload.files[k].name
                      /\ h.phase = "done" =>
                            /\ Len(progress) = n
                            /\ posted[Len(posted)].type = "BATCH_RESULT"
            /\ ~IsBatch(h) => \A k \in DOMAIN posted : posted[k].type # "PROGRESS"

C19_Witness ==
    /\ Len(worker.handlers) = 2
    /\ worker.handlers[1].phase = "done"
    /\ worker.handlers[2].phase = "done"
    /\ worker.handlers[2].type = "RESIZE"
    /\ Len(worker.outbox) = 4
    /\ worker.outbox[1].type = "PROGRESS"
    /\ worker.outbox[2].type = "ERROR"
    /\ worker.outbox[3].type = "PROGRESS"
    /\ worker.outbox[4].type = "BATCH_RESULT"

(***************************************************************************)
(* ELAAnalysis.performELA (src/unnamed/part_000)                           *)
(*                                                                         *)
(* An image is described by what recompression changes in it: the          *)
(* absolute channel differences of its pixels, constant on each 16x16      *)
(* cell, given as a base level and one patched cell.                       *)
(***************************************************************************)
MaxCells == 4

CellSize == 16

blockSize == 32

DefaultThreshold == 15

MaxChannel == 255

\* the absolute differences {rDiff, gDiff, bDiff} of a pixel
DiffLevels ==
    { [r |-> 0, g |-> 0, b |-> 0],
      [r |-> 1, g |-> 2, b |-> 1],
      [r |-> 2, g |-> 2, b |-> 1],
      [r |-> 40, g |-> 30, b |-> 20],
      [r |-> 90, g |-> 60, b |-> 30] }

Sides == {CellSize * k : k \in 1..MaxCells}

NoPatch == [cx |-> -1, cy |-> -1]

Images ==
    {[width |-> w, height |-> h, base |-> base, patch |-> NoPatch, level |-> base] :
        w \in Sides, h \in Sides, base \in DiffLevels}
    \cup
    {[width |-> w, height |-> h, base |-> base, patch |-> [cx |-> cx, cy |-> cy], level |-> level] :
        w \in Sides, h \in Sides, base \in DiffLevels, level \in DiffLevels,
        cx \in 0..(MaxCells - 1), cy \in 0..(MaxCells - 1)}

\* the differences of the pixel (x, y)
DiffAt(image, x, y) ==
    IF image.patch = [cx |-> x \div CellSize, cy |-> y \div CellSize] THEN image.level ELSE image.base

\* rDiff + gDiff + bDiff = 3 * avgDiff
DiffSum(d) == d.r + d.g + d.b

\* what elaData.data holds after `= Math.min(255, avgDiff * 10)`: a
\* Uint8ClampedArray rounds to the nearest integer
amplified(d) == Min(MaxChannel, MathRound(10 * DiffSum(d), 3))

\* the cells a rectangle of whole cells covers
CellsIn(x, y, width, height) ==
    {<<cx, cy>> : cx \in (x \div CellSize)..((x + width) \div CellSize - 1),
                  cy \in (y \div CellSize)..((y + height) \div CellSize - 1)}

RECURSIVE SumOverCells(_, _, _)
\* the sum over the pixels of the cells of term[difference of the pixel]
SumOverCells(image, cells, term) ==
    IF cells = {} THEN 0
    ELSE LET c == CHOOSE k \in cells : TRUE
         IN  CellSize * CellSize * term[DiffAt(image, c[1] * CellSize, c[2] * CellSize)]
                + SumOverCells(image, cells \ {c}, term)

\* blockAvg * (blockSize * blockSize): the red channel summed over the block at (x, y)
blockSum(image, x, y) ==
    SumOverCells(image, CellsIn(x, y, blockSize, blockSize), [d \in DiffLevels |-> amplified(d)])

\* the values of `for (let y = 0; y < extent - blockSize; y += blockSize)`
BlockStarts(extent) == {k * blockSize : k \in {j \in 0..extent : j * blockSize < extent - blockSize}}

\* the blocks in the order the two loops visit them
BlockOrder(image) ==
    LET xs == BlockStarts(image.width)
        ys == BlockStarts(image.height)
        n == Cardinality(xs) * Cardinality(ys)
    IN  [k \in 1..n |-> [x |-> ((k - 1) % Cardinality(xs)) * blockSize,
                         y |-> ((k - 1) \div Cardinality(xs)) * blockSize]]

\* Math.min(100, (blockAvg / 255) * 100) as a fraction
confidence(sum) ==
    IF sum >= MaxChannel * blockSize * blockSize THEN [num |-> 100, den |-> 1]
    ELSE [num |-> 100 * sum, den |-> MaxChannel * blockSize * blockSize]

suspiciousAreasOf(image, threshold) ==
    LET flagged == SelectSeq(BlockOrder(image),
                             LAMBDA b : blockSum(image, b.x, b.y) > threshold * blockSize * blockSize)
    IN  [k \in DOMAIN flagged |->
            [x |-> flagged[k].x, y |-> flagged[k].y, width |-> blockSize, height |-> blockSize,
             confidence |-> confidence(blockSum(image, flagged[k].x, flagged[k].y))]]

\* (avgDifference / 50) * 100 without the cap
overallScore_uncapped(image) ==
    LET total3 == SumOverCells(image, CellsIn(0, 0, image.width, image.height),
                                  [d \in DiffLevels |-> DiffSum(d)])
        pixels == image.width * image.height
    IN  [num |-> 2 * total3, den |-> 3 * pixels]

\* Math.min(100, (avgDifference / 50) * 100) as a fraction; avgDifference is
\* totalDifference / pixels and totalDifference the sum of (r + g + b) / 3
overallScore(image) ==
    LET total3 == SumOverCells(image, CellsIn(0, 0, image.width, image.height),
                                  [d \in DiffLevels |-> DiffSum(d)])
        pixels == image.width * image.height
    IN  IF 2 * total3 >= 100 * 3 * pixels THEN [num |-> 100, den |-> 1]
        ELSE [num |-> 2 * total3, den |-> 3 * pixels]

analysisOf(score) ==
    IF score.num < 10 * score.den
    THEN "Low manipulation probability. Image appears authentic."
    ELSE IF score.num < 30 * score.den
    THEN "Moderate manipulation probability. Some areas may have been edited."
    ELSE IF score.num < 60 * score.den
    THEN "High manipulation probability. Significant editing detected."
    ELSE "Very high manipulation probability. Extensive editing detected."

ELAResult(image, threshold) ==
    [canvas |-> [width |-> image.width, height |-> image.height],
     suspiciousAreas |-> suspiciousAreasOf(image, threshold),
     overallScore |-> overallScore(image),
     analysis |-> analysisOf(overallScore(image))]

NoResult == [canvas |-> Null]

\* the red channel of the canvas behind canvasRef after putImageData, cell by cell
putImageData(image) ==
    [c \in CellsIn(0, 0, image.width, image.height) |->
        amplified(DiffAt(image, c[1] * CellSize, c[2] * CellSize))]

\* the canvas behind canvasRef before anything is drawn on it
BlankCanvas == <<>>

Thresholds == {DefaultThreshold, 13}

\* the component with an image, the threshold slider set, and the two
\* canvases either attached to their refs or not
ELAComponents ==
    {[phase |-> "idle", mounted |-> mounted, image |-> image, threshold |-> t,
      isAnalyzing |-> FALSE, result |-> NoResult, drawn |-> BlankCanvas,
      promise |-> "none", thrown |-> "none"] :
        mounted \in BOOLEAN, image \in {i \in Images : i.patch.cx * CellSize < i.width
                                                        /\ i.patch.cy * CellSize < i.height
                                                        /\ (i.patch = NoPatch \/ i.level # i.base)},
        t \in Thresholds}

InitELASpec ==
    /\ pc = "idle"
    /\ sources = <<>>
    /\ exifSources = <<>>
    /\ consolidatedData = [f \in {} |-> None]
    /\ isAnalyzing = FALSE
    /\ runs = 0
    /\ data = <<>>
    /\ hexResult = NoResponse
    /\ hexData = NoHexData
    /\ InitAnalyzer
    /\ hexRows = NoHexData
    /\ InitWorker
    /\ ela \in ELAComponents
    /\ InitPanels

ELAUnchanged ==
    UNCHANGED <<pc, sources, exifSources, consolidatedData, isAnalyzing, runs,
                data, hexResult, hexData, analyzer, hexRows, worker, panels>>

\* performELA up to the first await, or to its return at the missing refs;
\* promise is the state of the promise the call returns and thrown what
\* its try block has thrown
performELA ==
    /\ ela.phase = "idle"
    /\ ela' = IF ela.mounted
              THEN [ela EXCEPT !.isAnalyzing = TRUE, !.phase = "loadingImage",
                               !.promise = "pending", !.thrown = "none"]
              ELSE [ela EXCEPT !.promise = "fulfilled", !.thrown = "none"]
    /\ ELAUnchanged

\* the image loads, or fails to: catch logs the error and finally clears isAnalyzing
imageSettles ==
    /\ ela.phase = "loadingImage"
    /\ \E loaded \in BOOLEAN :
          ela' = IF loaded THEN [ela EXCEPT !.phase = "loadingCompressed"]
                 ELSE [ela EXCEPT !.phase = "idle", !.isAnalyzing = FALSE,
                                  !.thrown = "image", !.promise = "fulfilled"]
    /\ ELAUnchanged

\* the recompressed image loads and the analysis runs to its end, or it fails to load
compressedSettles ==
    /\ ela.phase = "loadingCompressed"
    /\ \E loaded \in BOOLEAN :
          ela' = IF loaded
                 THEN [ela EXCEPT !.phase = "idle", !.isAnalyzing = FALSE,
                                  !.drawn = putImageData(ela.image),
                                  !.result = ELAResult(ela.image, ela.threshold),
                                  !.promise = "fulfilled"]
                 ELSE [ela EXCEPT !.phase = "idle", !.isAnalyzing = FALSE,
                                  !.thrown = "compressedImage", !.promise = "fulfilled"]
    /\ ELAUnchanged

NextELA == performELA \/ imageSettles \/ compressedSettles

SpecELA == InitELASpec /\ [][NextELA]_vars

(***************************************************************************)
(* Properties of performELA                                                *)
(***************************************************************************)
HasResult == "suspiciousAreas" \in DOMAIN ela.result

\* three times the amplified difference min(255, 10 * avgDiff) of a pixel
AmplifiedThirds(d) == Min(3 * 255, 10 * DiffSum(d))

\* the mean amplified difference of the block at (x, y) exceeds t
MeanAmplifiedExceeds(image, x, y, t) ==
    SumOverCells(image, CellsIn(x, y, 32, 32), [d \in DiffLevels |-> AmplifiedThirds(d)])
        > 3 * t * 32 * 32

TotalChannelDifference(image) ==
    LET cells == (image.width \div 16) * (image.height \div 16)
    IN  256 * (cells * (image.base.r + image.base.g + image.base.b)
               + IF image.patch = NoPatch THEN 0
                 ELSE (image.level.r + image.level.g + image.level.b)
                        - (image.base.r + image.base.g + image.base.b))

LowVerdict == "Low manipulation probability. Image appears authentic."
ModerateVerdict == "Moderate manipulation probability. Some areas may have been edited."
HighVerdict == "High manipulation probability. Significant editing detected."
VeryHighVerdict == "Very high manipulation probability. Extensive editing detected."

C21_WitnessIdentical ==
    /\ HasResult
    /\ TotalChannelDifference(ela.image) = 0

\* the last run of performELA has ended and its try block threw
RunFailed == ela.phase = "idle" /\ ela.thrown # "none"

C27_FirstRunSetsResult ==
    (~ela.mounted /\ ela.promise = "fulfilled" /\ ela.thrown = "none") => HasResult

\* C26 (as claimed): every hit {type, offset} of detectEmbeddedFiles is
\* sound: the offset is a whole number of bytes with 0 < offset < 10000, and
\* the bytes of the buffer from that offset on are the signature of that type.
C26_EveryHitSound ==
    Posted =>
        \A h \in DOMAIN hexResult.payload.embeddedFiles :
            LET hit == hexResult.payload.embeddedFiles[h]
            IN  /\ hit.offset.halves = 0
                /\ 0 < hit.offset.whole /\ hit.offset.whole < 10000
                /\ \E n \in DOMAIN EmbeddedTable :
                      /\ EmbeddedTable[n].type = hit.type
                      /\ BytesAt(data, EmbeddedTable[n].bytes, hit.offset.whole)

(***************************************************************************)
(* lib/cache.ts: ExifCache and cleanupCache                                *)
(***************************************************************************)
MaxTicks == 2

defaultTTL == 30 * 60 * 1000

\* the sizes above which cleanupCache sweeps and clears
SweepAbove == 100

ClearAbove == 200

DecimalDigits == <<"0", "1", "2", "3", "4", "5", "6", "7", "8", "9">>

RECURSIVE NumberToString(_)
\* the decimal digits a template literal renders a whole number with
NumberToString(n) ==
    IF n < 10 THEN <<DecimalDigits[n + 1]>>
    ELSE NumberToString(n \div 10) \o <<DecimalDigits[(n % 10) + 1]>>

generateKey(file) ==
    file.name \o <<"_">> \o NumberToString(file.size) \o <<"_">> \o NumberToString(file.lastModified)

\* Map.prototype.set, .delete and new Map()
MapSet(map, key, value) == [k \in DOMAIN map \cup {key} |-> IF k = key THEN value ELSE map[k]]

MapDelete(map, key) == [k \in DOMAIN map \ {key} |-> map[k]]

EmptyMap == [k \in {} |-> Null]

\* the ttl argument left out
NoTTL == [given |-> FALSE]

\* `ttl: number = this.defaultTTL`
TTLOf(ttl) == IF ttl.given THEN ttl.ms ELSE defaultTTL

cleanExpired(map, now) == [k \in {x \in DOMAIN map : ~(now > map[x].expiresAt)} |-> map[k]]

\* ExifCache.set: the map it leaves
cacheSet(map, file, value, ttl, now) ==
    cleanExpired(MapSet(map, generateKey(file),
                        [data |-> value, timestamp |-> now, expiresAt |-> now + TTLOf(ttl)]),
                 now)

\* get that returns whatever the map holds
cacheGet_noExpiry(map, file, now) ==
    LET key == generateKey(file)
    IN  IF key \notin DOMAIN map THEN [map |-> map, returned |-> Null]
        ELSE [map |-> map, returned |-> map[key].data]

\* ExifCache.get: the map it leaves and what it returns
cacheGet(map, file, now) ==
    LET key == generateKey(file)
    IN  IF key \notin DOMAIN map THEN [map |-> map, returned |-> Null]
        ELSE IF now > map[key].expiresAt THEN [map |-> MapDelete(map, key), returned |-> Null]
        ELSE [map |-> map, returned |-> map[key].data]

\* ExifCache.has
cacheHas(map, file, now) ==
    LET key == generateKey(file)
    IN  IF key \notin DOMAIN map THEN [map |-> map, returned |-> FALSE]
        ELSE IF now > map[key].expiresAt THEN [map |-> MapDelete(map, key), returned |-> FALSE]
        ELSE [map |-> map, returned |-> TRUE]

\* ExifCache.delete
cacheDelete(map, file) ==
    [map |-> MapDelete(map, generateKey(file)), returned |-> generateKey(file) \in DOMAIN map]

\* ExifCache.getStats without memoryUsage, which nothing reads
getStats(map, now) ==
    [size |-> Cardinality(DOMAIN map),
     totalEntries |-> Cardinality(DOMAIN map),
     expiredEntries |-> Cardinality({k \in DOMAIN map : now > map[k].expiresAt})]

\* the map cleanupCache leaves
cleanupCacheOf(map, now) ==
    LET stats == getStats(map, now)
        swept == IF stats.size > SweepAbove THEN cleanExpired(map, now) ELSE map
    IN  IF stats.size > ClearAbove THEN EmptyMap ELSE swept

\* the i-th of the files the cache is filled with
FileNo(i) == [name |-> <<"f">>, size |-> i, lastModified |-> 1]

\* the files the calls are made with
CacheFiles == {FileNo(1), [name |-> <<"a", "_", "1">>, size |-> 2, lastModified |-> 3]}

CacheData == {"d1", "d2"}

CacheTTLs == {NoTTL, [given |-> TRUE, ms |-> 1]}

\* how far the clock moves between two calls
ClockSteps == {2, defaultTTL}

\* the map after set(FileNo(i), "d1", ttl) for i = 1..n at time 0, the
\* first `short` of them with a ttl of one millisecond
Filled(n, short) ==
    LET keyOf == [i \in 1..n |-> generateKey(FileNo(i))]
    IN  [k \in {keyOf[i] : i \in 1..n} |->
            LET i == CHOOSE j \in 1..n : keyOf[j] = k
            IN  [data |-> "d1", timestamp |-> 0,
                 expiresAt |-> 0 + TTLOf(IF i <= short THEN [given |-> TRUE, ms |-> 1] ELSE NoTTL)]]

\* the set calls that filled the map, by key
FilledBy(n, short) ==
    LET keyOf == [i \in 1..n |-> generateKey(FileNo(i))]
    IN  [k \in {keyOf[i] : i \in 1..n} |->
            LET i == CHOOSE j \in 1..n : keyOf[j] = k
            IN  [data |-> "d1", at |-> 0,
                 ttl |-> IF i <= short THEN [given |-> TRUE, ms |-> 1] ELSE NoTTL]]

\* a cache n sets have filled; `live` remembers, for each key, the
\* latest set call that no delete of the key and no clear has followed
CacheAfter(n, short) ==
    [cache |-> Filled(n, short), live |-> FilledBy(n, short), now |-> 0, ticks |-> 0,
     last |-> [op |-> "none"]]

Caches == {CacheAfter(n, short) : n \in 0..2, short \in 0..2}

\* the sizes around the two thresholds of cleanupCache
FilledSizes ==
    {0, 1, SweepAbove, SweepAbove + 1, SweepAbove + 2, ClearAbove, ClearAbove + 1,
     ClearAbove + 2, ClearAbove + 3}

LargeCaches == {CacheAfter(n, short) : n \in FilledSizes, short \in {0, 1, 2, SweepAbove + 1}}

\* the reader, the hex page, the worker and the ELA component are not in use
InitCore ==
    /\ pc = "idle"
    /\ sources = <<>>
    /\ exifSources = <<>>
    /\ consolidatedData = [f \in {} |-> None]
    /\ isAnalyzing = FALSE
    /\ runs = 0
    /\ data = <<>>
    /\ hexResult = NoResponse
    /\ hexData = NoHexData
    /\ InitAnalyzer
    /\ hexRows = NoHexData
    /\ InitWorker
    /\ InitELA

\* nothing of them changes
CoreUnchanged ==
    UNCHANGED <<pc, sources, exifSources, consolidatedData, isAnalyzing, runs,
                data, hexResult, hexData, analyzer, hexRows, worker, ela>>

InitCacheSpec ==
    /\ InitCore
    /\ exifCache \in Caches
    /\ InitForensics
    /\ InitHook
    /\ InitBatch
    /\ InitEditor

CacheUnchanged == CoreUnchanged /\ UNCHANGED <<forensics, hook, batch, editor>>

\* exifCache.set(file, data, ttl)
set ==
    /\ "now" \in DOMAIN exifCache
    /\ \E file \in CacheFiles, value \in CacheData, ttl \in CacheTTLs :
          exifCache' = [exifCache EXCEPT
                           !.cache = cacheSet(exifCache.cache, file, value, ttl, exifCache.now),
                           !.live = MapSet(exifCache.live, generateKey(file),
                                           [data |-> value, at |-> exifCache.now, ttl |-> ttl]),
                           !.last = [op |-> "set", file |-> file]]
    /\ CacheUnchanged

\* exifCache.get(file)
get ==
    /\ "now" \in DOMAIN exifCache
    /\ \E file \in CacheFiles :
          LET r == cacheGet(exifCache.cache, file, exifCache.now)
          IN  exifCache' = [exifCache EXCEPT
                               !.cache = r.map,
                               !.last = [op |-> "get", file |-> file, returned |-> r.returned]]
    /\ CacheUnchanged

\* exifCache.has(file)
has ==
    /\ "now" \in DOMAIN exifCache
    /\ \E file \in CacheFiles :
          LET r == cacheHas(exifCache.cache, file, exifCache.now)
          IN  exifCache' = [exifCache EXCEPT
                               !.cache = r.map,
                               !.last = [op |-> "has", file |-> file, returned |-> r.returned]]
    /\ CacheUnchanged

\* exifCache.delete(file)
delete ==
    /\ "now" \in DOMAIN exifCache
    /\ \E file \in CacheFiles :
          LET r == cacheDelete(exifCache.cache, file)
          IN  exifCache' = [exifCache EXCEPT
                               !.cache = r.map,
                               !.live = MapDelete(exifCache.live, generateKey(file)),
                               !.last = [op |-> "delete", file |-> file, returned |-> r.returned]]
    /\ CacheUnchanged

\* exifCache.clear()
clear ==
    /\ "now" \in DOMAIN exifCache
    /\ exifCache' = [exifCache EXCEPT !.cache = EmptyMap, !.live = EmptyMap,
                                      !.last = [op |-> "clear"]]
    /\ CacheUnchanged

\* cleanupCache()
cleanupCache ==
    /\ "now" \in DOMAIN exifCache
    /\ exifCache' = [exifCache EXCEPT
                        !.cache = cleanupCacheOf(exifCache.cache, exifCache.now),
                        !.last = [op |-> "cleanupCache"]]
    /\ CacheUnchanged

\* Date.now() moves on between two calls
clockAdvances ==
    /\ "now" \in DOMAIN exifCache
    /\ exifCache.ticks < MaxTicks
    /\ \E step \in ClockSteps :
          exifCache' = [exifCache EXCEPT !.now = @ + step, !.ticks = @ + 1,
                                         !.last = [op |-> "none"]]
    /\ CacheUnchanged

NextCache == set \/ get \/ has \/ delete \/ clear \/ clockAdvances

SpecCache == InitCacheSpec /\ [][NextCache]_vars

InitCleanup ==
    /\ InitCore
    /\ exifCache \in LargeCaches
    /\ InitForensics
    /\ InitHook
    /\ InitBatch
    /\ InitEditor

NextCleanup == cleanupCache \/ clockAdvances

SpecCleanup == InitCleanup /\ [][NextCleanup]_vars

(***************************************************************************)
(* Properties of the cache                                                 *)
(***************************************************************************)
\* the key name_size_lastModified of the file of the last call
LastKey == generateKey(exifCache.last.file)

\* set time + ttl of a set call, the ttl being 30 minutes when none is given
ExpiresAtOf(call) == call.at + (IF call.ttl.given THEN call.ttl.ms ELSE 1800000)

\* the latest set of the key is still in force and the clock is not past its expiry
Fresh(key) ==
    /\ key \in DOMAIN exifCache.live
    /\ exifCache.now <= ExpiresAtOf(exifCache.live[key])

\* C24: get(file) returns the data of the most recent set of the file's key
\* when no delete of the key and no clear has followed that set and the
\* clock is not past set time + ttl, and null otherwise; has(file) is true
\* exactly in the first case; and an entry that get or has found expired is
\* no longer in the map.
C24_GetReturnsLatestLiveSet ==
    /\ ("last" \in DOMAIN exifCache /\ exifCache.last.op = "get") =>
          exifCache.last.returned =
              IF Fresh(LastKey) THEN exifCache.live[LastKey].data ELSE Null
    /\ ("last" \in DOMAIN exifCache /\ exifCache.last.op = "has") =>
          exifCache.last.returned = Fresh(LastKey)
    /\ ("last" \in DOMAIN exifCache /\ exifCache.last.op \in {"get", "has"}) =>
          (~Fresh(LastKey) => LastKey \notin DOMAIN exifCache.cache)

\* a get of a key whose set has expired, after an earlier set of another value
C24_Witness ==
    /\ "last" \in DOMAIN exifCache
    /\ exifCache.last.op = "get"
    /\ exifCache.last.returned = Null
    /\ LastKey \in DOMAIN exifCache.live
    /\ exifCache.live[LastKey].data = "d2"
    /\ exifCache.now > ExpiresAtOf(exifCache.live[LastKey])

\* the keys of the map whose entry the clock has not passed
Unexpired(map, now) == {k \in DOMAIN map : now <= map[k].expiresAt}

\* C25 (as claimed): cleanupCache leaves a cache of at most 100 entries as
\* it is; from a larger one it removes expired entries only, and it drops
\* unexpired entries only when more than 200 entries are left once the
\* expired ones are gone.
C25_CleanupKeepsUnexpired ==
    [][cleanupCache =>
          LET before == exifCache.cache
              after == exifCache'.cache
              kept == Unexpired(before, exifCache.now)
          IN  /\ Cardinality(DOMAIN before) <= 100 => after = before
              /\ Cardinality(DOMAIN before) > 100 =>
                    /\ DOMAIN after \subseteq kept
                    /\ \A k \in DOMAIN after : after[k] = before[k]
                    /\ Cardinality(kept) <= 200 => DOMAIN after = kept]_vars

(***************************************************************************)
(* ForensicTools and AdvancedForensics: runAnalysis                        *)
(***************************************************************************)
\* the tools whose analysis waits for an image to load
ImageTools == {"steganography", "advanced_stego"}

\* the tools whose analysis is an async function of the file's buffer or of the metadata
PromiseTools == {"hashes", "advanced_hash", "inconsistency"}

\* the tools of the AdvancedForensics panel
AdvancedTools == {"advanced_stego", "advanced_hash", "inconsistency"}

ToolNames == ImageTools \cup PromiseTools

\* what an analysis resolves with, with or without a severity
AnalysisResults == {[suspicious |-> FALSE], [suspicious |-> TRUE, severity |-> "high"]}

\* what an analysis throws
AnalysisErrors ==
    {[isError |-> TRUE, message |-> "The requested file could not be read"],
     [isError |-> FALSE, message |-> "NotSupported"]}

\* disabled={analyses[tool.id]?.status === 'running'}
ButtonDisabled(toolName) ==
    /\ toolName \in DOMAIN forensics.analyses
    /\ forensics.analyses[toolName].status = "running"

\* the entry runAnalysis stores when the analysis resolves
CompletedEntry(toolName, result) ==
    IF toolName \in AdvancedTools
    THEN [tool |-> toolName, status |-> "completed", result |-> result,
          severity |-> IF "severity" \in DOMAIN result THEN result.severity ELSE "low"]
    ELSE [tool |-> toolName, status |-> "completed", result |-> result]

\* the entry runAnalysis stores in its catch block
ErrorEntry(toolName, thrown) ==
    [tool |-> toolName, status |-> "error", error |-> errorMessage(thrown)]

InitForensicsSpec ==
    /\ InitCore
    /\ InitCache
    /\ InitHook
    /\ InitBatch
    /\ InitEditor
    /\ forensics = [analyses |-> EmptyMap, loads |-> [t \in ToolNames |-> "none"]]

ForensicsUnchanged == CoreUnchanged /\ UNCHANGED <<exifCache, hook, batch, editor>>

\* a click on a tool's button: runAnalysis up to `await analysisFunction()`
runAnalysis ==
    /\ "loads" \in DOMAIN forensics
    /\ \E toolName \in ToolNames :
          /\ ~ButtonDisabled(toolName)
          /\ forensics' = [forensics EXCEPT
                              !.analyses = MapSet(@, toolName, [tool |-> toolName, status |-> "running"]),
                              !.loads[toolName] = "pending"]
    /\ ForensicsUnchanged

\* img.onload runs and resolves the promise; runAnalysis stores the result
imageLoads ==
    /\ "loads" \in DOMAIN forensics
    /\ \E toolName \in ImageTools, result \in AnalysisResults :
          /\ forensics.loads[toolName] = "pending"
          /\ forensics' = [forensics EXCEPT
                              !.analyses = MapSet(@, toolName, CompletedEntry(toolName, result)),
                              !.loads[toolName] = "succeeded"]
    /\ ForensicsUnchanged

\* the image fails to load: no onerror handler is set, so nothing settles the promise
imageFails ==
    /\ "loads" \in DOMAIN forensics
    /\ \E toolName \in ImageTools :
          /\ forensics.loads[toolName] = "pending"
          /\ forensics' = [forensics EXCEPT !.loads[toolName] = "failed"]
    /\ ForensicsUnchanged

\* the async analysis function settles and runAnalysis goes on after its await
analysisSettles ==
    /\ "loads" \in DOMAIN forensics
    /\ \E toolName \in PromiseTools :
          /\ forensics.loads[toolName] = "pending"
          /\ \/ \E result \in AnalysisResults :
                   forensics' = [forensics EXCEPT
                                    !.analyses = MapSet(@, toolName, CompletedEntry(toolName, result)),
                                    !.loads[toolName] = "succeeded"]
             \/ \E thrown \in AnalysisErrors :
                   forensics' = [forensics EXCEPT
                                    !.analyses = MapSet(@, toolName, ErrorEntry(toolName, thrown)),
                                    !.loads[toolName] = "failed"]
    /\ ForensicsUnchanged

NextForensics == runAnalysis \/ imageLoads \/ imageFails \/ analysisSettles

SpecForensics == InitForensicsSpec /\ [][NextForensics]_vars

\* C23 (as claimed): an analysis started through runAnalysis has left status
\* running, for completed or error, once the image load or buffer read under
\* it has succeeded or failed; so have the steganography analyses when the
\* image fails to load.
C23_SettledLoadEndsRun ==
    "loads" \in DOMAIN forensics =>
        \A toolName \in ToolNames :
            forensics.loads[toolName] \in {"succeeded", "failed"} =>
                forensics.analyses[toolName].status \in {"completed", "error"}

(***************************************************************************)
(* hooks/useExifWorker.ts                                                  *)
(***************************************************************************)
MaxHookFiles == 2

\* files whose lastModified is, or is not, a time toISOString can render
HookFiles == {[name |-> n, lastModified |-> t] : n \in {"a.jpg", "b.jpg"}, t \in {"valid", "out of range"}}

\* the lists of at most n files
HookFileLists(n) == UNION {[1..k -> HookFiles] : k \in 0..n}

\* what processFile returns once its timer has fired: toISOString throws a
\* RangeError on a time value out of range, which the catch block turns
\* into a failure
processFileResult(file) ==
    IF file.lastModified = "valid"
    THEN [success |-> TRUE, data |-> [fileName |-> file.name, lastModified |-> "ISO"]]
    ELSE [success |-> FALSE, error |-> errorMessage([isError |-> TRUE, message |-> "Invalid time value"])]

\* no processFiles call made yet
NoBatchCall == [state |-> "none"]

\* the hook in a mounted component: the timers of the processFile calls in
\* flight, in the order they were started, and the processFiles call
MountedHook == [isProcessing |-> FALSE, timers |-> <<>>, batchCall |-> NoBatchCall, started |-> FALSE]

InitHookSpec ==
    /\ InitCore
    /\ InitCache
    /\ InitForensics
    /\ hook = MountedHook
    /\ InitBatch
    /\ InitEditor

HookUnchanged == CoreUnchanged /\ UNCHANGED <<exifCache, forensics, batch, editor>>

\* processFiles(files) up to its await: each processFile call runs up to its
\* own await; with no file, Promise.all resolves at once and the call returns
processFiles ==
    /\ "timers" \in DOMAIN hook
    /\ hook.batchCall.state # "pending"
    /\ \E files \in HookFileLists(MaxHookFiles) :
          hook' = IF files = <<>>
                  THEN [hook EXCEPT !.isProcessing = FALSE, !.started = TRUE,
                                    !.batchCall = [state |-> "returned", files |-> files,
                                                   returned |-> <<>>]]
                  ELSE [hook EXCEPT !.isProcessing = TRUE, !.started = TRUE,
                                    !.timers = @ \o [i \in 1..Len(files) |-> [file |-> files[i], index |-> i]],
                                    !.batchCall = [state |-> "pending", files |-> files,
                                                   results |-> <<>>]]
    /\ HookUnchanged

\* a component calls processFile(file) itself
processFile ==
    /\ "timers" \in DOMAIN hook
    /\ Len(hook.timers) < MaxHookFiles
    /\ \E file \in HookFiles :
          hook' = [hook EXCEPT !.isProcessing = TRUE, !.started = TRUE,
                               !.timers = Append(@, [file |-> file, index |-> 0])]
    /\ HookUnchanged

\* the oldest timer fires: that processFile call returns, and processFiles
\* goes on when it was the last of its calls
timerFires ==
    /\ "timers" \in DOMAIN hook
    /\ hook.timers # <<>>
    /\ LET call == Head(hook.timers)
           result == processFileResult(call.file)
       IN  IF call.index = 0
           THEN hook' = [hook EXCEPT !.isProcessing = FALSE, !.timers = Tail(@)]
           ELSE LET results == Append(hook.batchCall.results, result)
                IN  IF Len(results) = Len(hook.batchCall.files)
                    THEN hook' = [hook EXCEPT !.isProcessing = FALSE, !.timers = Tail(@),
                                              !.batchCall = [state |-> "returned",
                                                             files |-> hook.batchCall.files,
                                                             returned |-> results]]
                    ELSE hook' = [hook EXCEPT !.isProcessing = FALSE,
                                              !.timers = Tail(@),
                                              !.batchCall.results = results]
    /\ HookUnchanged

NextHook == processFiles \/ processFile \/ timerFires

SpecHook == InitHookSpec /\ [][NextHook]_vars

\* C28 (as claimed): isProcessing is true whenever a processFile call has
\* not returned yet and false once all calls have returned, and processFiles
\* returns one result per input file, in the order of the files.
C28_ProcessingWhileCallsPending ==
    "timers" \in DOMAIN hook =>
        /\ hook.timers # <<>> => hook.isProcessing
        /\ (hook.timers = <<>> /\ hook.started) => ~hook.isProcessing
        /\ hook.batchCall.state = "returned" =>
              /\ Len(hook.batchCall.returned) = Len(hook.batchCall.files)
              /\ \A i \in DOMAIN hook.batchCall.files :
                    LET file == hook.batchCall.files[i]
                        result == hook.batchCall.returned[i]
                    IN  IF file.lastModified = "valid"
                        THEN result.success /\ result.data.fileName = file.name
                        ELSE ~result.success

(***************************************************************************)
(* components/batch-processor.tsx                                          *)
(***************************************************************************)
MaxBatchFiles == 3

\* what useExifWorker() returns
useExifWorker == [processFile |-> "function", processFiles |-> "function", isProcessing |-> FALSE]

\* const { batchProcess, isProcessing } = useExifWorker()
batchProcess ==
    IF "batchProcess" \in DOMAIN useExifWorker THEN useExifWorker["batchProcess"] ELSE Undefined

\* the files a user can pick: two of them share a name, and the extraction
\* of a file would succeed or fail
PickedFiles == {[name |-> n, extracts |-> e] : n \in {"a.jpg", "b.jpg"}, e \in BOOLEAN}

\* the metadata of the file the page already shows
CurrentExifData == [Make |-> "Canon", Model |-> "EOS", latitude |-> "40.7"]

\* useState<BatchResults | null>(null)
NoBatchResults == [totalFiles |-> Null]

\* the results the effect sets for the current file
CurrentResults ==
    [totalFiles |-> 1, completed |-> 1, errors |-> 0,
     withGPS |-> IF CurrentExifData.latitude # "" THEN 1 ELSE 0,
     cameras |-> <<[name |-> <<CurrentExifData.Make, " ", CurrentExifData.Model>>, count |-> 1]>>]

\* the component mounted without a current file, and with one: the effect
\* puts it into the batch as completed and shows its results
BatchProcessors ==
    {[files |-> <<>>, results |-> NoBatchResults, showResults |-> FALSE, nextId |-> 1]}
        \cup
    {[files |-> <<[id |-> 0, file |-> file, status |-> "completed",
                   exifData |-> CurrentExifData, progress |-> 100]>>,
      results |-> CurrentResults, showResults |-> TRUE, nextId |-> 1] : file \in PickedFiles}

InitBatchSpec ==
    /\ InitCore
    /\ InitCache
    /\ InitForensics
    /\ InitHook
    /\ batch \in BatchProcessors
    /\ InitEditor

BatchUnchanged == CoreUnchanged /\ UNCHANGED <<exifCache, forensics, hook, editor>>

\* the user picks one more file
handleFileUpload ==
    /\ "nextId" \in DOMAIN batch
    /\ Len(batch.files) < MaxBatchFiles
    /\ \E file \in PickedFiles :
          batch' = [batch EXCEPT !.files = Append(@, [id |-> batch.nextId, file |-> file,
                                                      status |-> "pending"]),
                                 !.nextId = @ + 1]
    /\ BatchUnchanged

clearAll ==
    /\ "nextId" \in DOMAIN batch
    /\ batch' = [batch EXCEPT !.files = <<>>, !.results = NoBatchResults, !.showResults = FALSE,
                              !.nextId = 1]
    /\ BatchUnchanged

\* setFiles(prev => prev.map(f => f.status === 'pending' ? {...f, status: 'processing', progress: 0} : f))
MarkProcessing(files) ==
    [i \in DOMAIN files |->
        IF files[i].status = "pending"
        THEN [k \in DOMAIN files[i] \cup {"progress"} |->
                 IF k = "status" THEN "processing" ELSE IF k = "progress" THEN 0 ELSE files[i][k]]
        ELSE files[i]]

\* the catch block: every processing file becomes an error carrying the message
MarkFailed(files, thrown) ==
    [i \in DOMAIN files |->
        [k \in DOMAIN files[i] \cup {"error"} |->
            IF k = "status"
            THEN (IF files[i].status = "processing" THEN "error" ELSE files[i].status)
            ELSE IF k = "error"
            THEN (IF files[i].status = "processing"
                  THEN (IF thrown.isError THEN thrown.message ELSE "Processing failed")
                  ELSE IF "error" \in DOMAIN files[i] THEN files[i].error ELSE Undefined)
            ELSE files[i][k]]]

\* processFiles: the hook returns no batchProcess, so calling it throws a
\* TypeError before anything is awaited and the catch block ends the handler
processFiles_batch ==
    /\ "nextId" \in DOMAIN batch
    /\ batch.files # <<>>
    /\ LET marked == MarkProcessing(batch.files)
           filesToProcess == SelectSeq(batch.files, LAMBDA f : f.status \in {"pending", "processing"})
       IN  IF filesToProcess = <<>>
           THEN batch' = [batch EXCEPT !.files = marked]
           ELSE /\ batchProcess = Undefined
                /\ batch' = [batch EXCEPT !.files =
                                MarkFailed(marked, [isError |-> TRUE,
                                                    message |-> "batchProcess is not a function"])]
    /\ BatchUnchanged

NextBatch == handleFileUpload \/ clearAll \/ processFiles_batch

SpecBatch == InitBatchSpec /\ [][NextBatch]_vars

\* C29 (as claimed): when processFiles has run on a batch with pending files,
\* no file is left processing, every file that was pending is completed if
\* the extraction of that file succeeds and in error otherwise, whatever
\* names the files share, and the files that were completed keep their
\* status and metadata.
C29_StatusFollowsOwnExtraction ==
    [][(processFiles_batch /\ \E i \in DOMAIN batch.files : batch.files[i].status = "pending") =>
          /\ Len(batch'.files) = Len(batch.files)
          /\ \A i \in DOMAIN batch.files :
                /\ batch'.files[i].status # "processing"
                /\ batch.files[i].status = "pending" =>
                      batch'.files[i].status =
                          IF batch.files[i].file.extracts THEN "completed" ELSE "error"
                /\ batch.files[i].status = "completed" =>
                      /\ batch'.files[i].status = "completed"
                      /\ batch'.files[i].exifData = batch.files[i].exifData]_vars

(***************************************************************************)
(* components/exif-editor.tsx                                              *)
(***************************************************************************)
UpperCaseLetters == <<"A", "B", "C", "D", "E", "F", "G", "H", "I", "J", "K", "L", "M", "N", "O", "P", "Q", "R", "S", "T", "U", "V", "W", "X", "Y", "Z">>

LowerCaseLetters == <<"a", "b", "c", "d", "e", "f", "g", "h", "i", "j", "k", "l", "m", "n", "o", "p", "q", "r", "s", "t", "u", "v", "w", "x", "y", "z">>

\* String.prototype.toLowerCase on the letters A..Z
toLowerCase(str) ==
    [i \in DOMAIN str |->
        IF \E k \in DOMAIN UpperCaseLetters : UpperCaseLetters[k] = str[i]
        THEN LowerCaseLetters[CHOOSE k \in DOMAIN UpperCaseLetters : UpperCaseLetters[k] = str[i]]
        ELSE str[i]]

\* String.prototype.includes
includes(str, sub) == indexOf(str, sub, 0) # -1

sensitiveFields ==
    <<<<"G", "P", "S">>,
      <<"l", "a", "t", "i", "t", "u", "d", "e">>,
      <<"l", "o", "n", "g", "i", "t", "u", "d", "e">>,
      <<"G", "P", "S", "L", "a", "t", "i", "t", "u", "d", "e">>,
      <<"G", "P", "S", "L", "o", "n", "g", "i", "t", "u", "d", "e">>,
      <<"G", "P", "S", "A", "l", "t", "i", "t", "u", "d", "e">>,
      <<"G", "P", "S", "I", "m", "g", "D", "i", "r", "e", "c", "t", "i", "o", "n">>,
      <<"G", "P", "S", "S", "p", "e", "e", "d">>,
      <<"G", "P", "S", "A", "r", "e", "a", "I", "n", "f", "o", "r", "m", "a", "t", "i", "o", "n">>,
      <<"G", "P", "S", "D", "a", "t", "e", "S", "t", "a", "m", "p">>,
      <<"G", "P", "S", "T", "i", "m", "e", "S", "t", "a", "m", "p">>,
      <<"M", "a", "k", "e">>,
      <<"M", "o", "d", "e", "l">>,
      <<"S", "o", "f", "t", "w", "a", "r", "e">>,
      <<"D", "a", "t", "e", "T", "i", "m", "e">>,
      <<"D", "a", "t", "e", "T", "i", "m", "e", "O", "r", "i", "g", "i", "n", "a", "l">>,
      <<"D", "a", "t", "e", "T", "i", "m", "e", "D", "i", "g", "i", "t", "i", "z", "e", "d">>,
      <<"A", "r", "t", "i", "s", "t">>,
      <<"C", "o", "p", "y", "r", "i", "g", "h", "t">>,
      <<"U", "s", "e", "r", "C", "o", "m", "m", "e", "n", "t">>,
      <<"I", "m", "a", "g", "e", "D", "e", "s", "c", "r", "i", "p", "t", "i", "o", "n">>,
      <<"X", "P", "C", "o", "m", "m", "e", "n", "t">>,
      <<"X", "P", "A", "u", "t", "h", "o", "r">>,
      <<"X", "P", "K", "e", "y", "w", "o", "r", "d", "s">>,
      <<"X", "P", "S", "u", "b", "j", "e", "c", "t">>,
      <<"X", "P", "T", "i", "t", "l", "e">>,
      <<"C", "a", "m", "e", "r", "a", "O", "w", "n", "e", "r", "N", "a", "m", "e">>,
      <<"B", "o", "d", "y", "S", "e", "r", "i", "a", "l", "N", "u", "m", "b", "e", "r">>,
      <<"L", "e", "n", "s", "S", "e", "r", "i", "a", "l", "N", "u", "m", "b", "e", "r">>,
      <<"O", "w", "n", "e", "r", "N", "a", "m", "e">>>>

\* sensitiveFields.some(sensitive => key.toLowerCase().includes(sensitive.toLowerCase()))
isSensitive(key) ==
    \E n \in DOMAIN sensitiveFields : includes(toLowerCase(key), toLowerCase(sensitiveFields[n]))

\* the exifData prop: a position, a setting and the maker note
EditorExifData ==
    (<<"G", "P", "S", "L", "a", "t", "i", "t", "u", "d", "e">> :> "40.7") @@ (<<"I", "S", "O">> :> "100")
        @@ (<<"M", "a", "k", "e", "r", "N", "o", "t", "e">> :> "bytes")

\* the keys typed into the add-field form, the empty one among them
TypedKeys == {<<>>, <<"a", "r", "t", "i", "s", "t">>, <<"N", "o", "t", "e">>}

TypedValues == {"", "typed"}

\* the component as it mounts; cleaned and added remember that
\* removeSensitiveData has run and which keys addNewField has added since
MountedEditor ==
    [exifData |-> EditorExifData, editableFields |-> EmptyMap, showEditor |-> FALSE,
     cleaned |-> FALSE, added |-> {}]

InitEditorSpec ==
    /\ InitCore
    /\ InitCache
    /\ InitForensics
    /\ InitHook
    /\ InitBatch
    /\ editor = MountedEditor

EditorUnchanged == CoreUnchanged /\ UNCHANGED <<exifCache, forensics, hook, batch>>

initializeEditableFields(exifData) ==
    [key \in DOMAIN exifData |->
        [key |-> key, value |-> exifData[key], originalValue |-> exifData[key], isEditing |-> FALSE]]

\* the Edit Metadata button: initializeEditableFields(); setShowEditor(true)
openEditor ==
    /\ "editableFields" \in DOMAIN editor
    /\ ~editor.showEditor
    /\ editor' = [editor EXCEPT !.editableFields = initializeEditableFields(editor.exifData),
                                !.showEditor = TRUE]
    /\ EditorUnchanged

\* the Close button: setShowEditor(false)
closeEditor ==
    /\ "editableFields" \in DOMAIN editor
    /\ editor.showEditor
    /\ editor' = [editor EXCEPT !.showEditor = FALSE]
    /\ EditorUnchanged

\* the rows of the open editor, with or without their input shown
Rows(isEditing) ==
    IF "editableFields" \in DOMAIN editor /\ editor.showEditor
    THEN {key \in DOMAIN editor.editableFields : editor.editableFields[key].isEditing = isEditing}
    ELSE {}

startEditing ==
    /\ \E key \in Rows(FALSE) :
          editor' = [editor EXCEPT !.editableFields[key].isEditing = TRUE]
    /\ EditorUnchanged

cancelEditing ==
    /\ \E key \in Rows(TRUE) :
          editor' = [editor EXCEPT !.editableFields[key].isEditing = FALSE,
                                   !.editableFields[key].value = editor.editableFields[key].originalValue]
    /\ EditorUnchanged

saveField ==
    /\ \E key \in Rows(TRUE) :
          editor' = [editor EXCEPT !.editableFields[key].isEditing = FALSE,
                                   !.editableFields[key].originalValue = editor.editableFields[key].value]
    /\ EditorUnchanged

updateFieldValue ==
    /\ \E key \in Rows(TRUE), newValue \in {"edited"} :
          editor' = [editor EXCEPT !.editableFields[key].value = newValue]
    /\ EditorUnchanged

deleteField ==
    /\ \E key \in Rows(FALSE) :
          editor' = [editor EXCEPT !.editableFields = MapDelete(@, key)]
    /\ EditorUnchanged

\* the Add button of the form, with the key and the value typed into it
addNewField ==
    /\ "editableFields" \in DOMAIN editor
    /\ editor.showEditor
    /\ \E newFieldKey \in TypedKeys, newFieldValue \in TypedValues :
          IF newFieldKey # <<>> /\ newFieldValue # ""
          THEN editor' = [editor EXCEPT
                             !.editableFields = MapSet(@, newFieldKey,
                                 [key |-> newFieldKey, value |-> newFieldValue,
                                  originalValue |-> newFieldValue, isEditing |-> FALSE,
                                  isNew |-> TRUE]),
                             !.added = IF editor.cleaned THEN @ \cup {newFieldKey} ELSE @]
          ELSE editor' = editor
    /\ EditorUnchanged

\* the Remove Sensitive Data button of either view
removeSensitiveData ==
    /\ "editableFields" \in DOMAIN editor
    /\ editor' = [editor EXCEPT
                     !.editableFields = [key \in {k \in DOMAIN editor.editableFields : ~isSensitive(k)} |->
                                            editor.editableFields[key]],
                     !.cleaned = TRUE, !.added = {}]
    /\ EditorUnchanged

NextEditor ==
    \/ openEditor \/ closeEditor \/ startEditing \/ cancelEditing \/ saveField
    \/ updateFieldValue \/ deleteField \/ addNewField \/ removeSensitiveData

SpecEditor == InitEditorSpec /\ [][NextEditor]_vars

\* the key contains one of the sensitive names, letter case set aside
NamesSensitiveData(key) ==
    \E n \in DOMAIN sensitiveFields :
        \E at \in 0..Len(key) :
            /\ at + Len(sensitiveFields[n]) <= Len(key)
            /\ \A j \in 1..Len(sensitiveFields[n]) :
                  toLowerCase(<<key[at + j]>>) = toLowerCase(<<sensitiveFields[n][j]>>)

\* C30 (as claimed): once removeSensitiveData has run, editableFields holds
\* no field with a sensitive key in any later state, whatever is edited,
\* saved, deleted, closed and reopened, except the keys addNewField has added
\* since; and removeSensitiveData leaves the other fields as they are.
C30_SensitiveFieldsStayRemoved ==
    [][/\ ("cleaned" \in DOMAIN editor' /\ editor'.cleaned) =>
             \A key \in DOMAIN editor'.editableFields :
                 NamesSensitiveData(key) => key \in editor'.added
       /\ removeSensitiveData =>
             \A key \in DOMAIN editor.editableFields :
                 ~NamesSensitiveData(key) =>
                     /\ key \in DOMAIN editor'.editableFields
                     /\ editor'.editableFields[key] = editor.editableFields[key]]_vars

====
